---- MODULE Spec2Model ----
(***************************************************************************)
(* ServerXmlDocument (src/build-for-ts-browser.js): the Change Observer    *)
(* and the Change Applier over a replicated XML tree, with the tree        *)
(* primitives, the deep-change feed and the undo manager of the wrapped    *)
(* engine modelled by what the code's calls into it do.                    *)
(*                                                                         *)
(* Values.  An optional value (a JS value that may be undefined) is a set  *)
(* with at most one element.  A string of characters is a sequence of      *)
(* one-character strings.  An attribute map is a function from names.      *)
(* The tree is the sequence `nodes`: handle 1 is the root element          *)
(* (this._y); a child list keeps the handles of removed children, marked   *)
(* deleted, in place, as the engine keeps its items.                       *)
(***************************************************************************)
EXTENDS Integers, Sequences, FiniteSets, TLC

VARIABLES
    nodes,      \* the Y.Doc's "xml" tree: handle -> node
    nextUuid,   \* how many identifiers uuid() has handed out
    undoStack,  \* this._undoManager.undoStack
    redoStack,  \* this._undoManager.redoStack
    lastChange, \* this._undoManager.lastChange: 0, or 1 for the time of the last captured change
    calls,      \* how many calls have been made on the document
    sink,       \* what notifyChanges received during the last call, in order
    last,       \* the last call: its arguments, its outcome, the events fed to the observer
    documents,  \* the entry point's map documentID -> ServerXmlDocument
    protocols,  \* the entry point's map documentID -> ClientProtocol
    sent,       \* the messages the send functions got during the last entry-point call
    lastCall    \* the last entry-point call: function, documentID, outcome, number

docVars == <<nodes, nextUuid, undoStack, redoStack, lastChange, calls, sink, last>>
registryVars == <<documents, protocols, sent, lastCall>>
vars == <<nodes, nextUuid, undoStack, redoStack, lastChange, calls, sink, last,
          documents, protocols, sent, lastCall>>

-----------------------------------------------------------------------------
(* Bounds of the model *)

MaxNodes == 5       \* handles ever allocated in one document, the root included
MaxCalls == 2       \* calls made on one document
MaxEntryCalls == 4  \* calls made on the entry point's functions

-----------------------------------------------------------------------------
(* Optional values and small helpers *)

None == {}
Some(v) == {v}
The(o) == CHOOSE v \in o : TRUE

Range(s) == {s[i] : i \in DOMAIN s}

RECURSIVE Flatten(_)
Flatten(ss) == IF ss = <<>> THEN <<>> ELSE Head(ss) \o Flatten(Tail(ss))

Min(a, b) == IF a < b THEN a ELSE b
Max(a, b) == IF a < b THEN b ELSE a

EmptyMap == <<>>

\* obj[key] of a JS object held as a function: undefined when the key is absent
Get(obj, key) == IF key \in DOMAIN obj THEN Some(obj[key]) ELSE None

MapSet(m, k, v) == [x \in DOMAIN m \cup {k} |-> IF x = k THEN v ELSE m[x]]
MapDel(m, k) == [x \in DOMAIN m \ {k} |-> m[x]]

\* the identifiers uuid() returns, in the order it returns them
Uuids == <<"u1", "u2", "u3", "u4", "u5", "u6", "u7", "u8", "u9", "u10", "u11", "u12">>
uuid(n) == Uuids[n + 1]

-----------------------------------------------------------------------------
(* The tree *)

RootH == 1

Element(name, attrs, parent) ==
    [kind |-> "element", nodeName |-> name, attrs |-> attrs, kids |-> <<>>,
     parent |-> parent, deleted |-> FALSE, redone |-> 0, text |-> <<>>]

TextRun(chars, parent) ==
    [kind |-> "text", nodeName |-> "", attrs |-> EmptyMap, kids |-> <<>>,
     parent |-> parent, deleted |-> FALSE, redone |-> 0, text |-> chars]

\* a Y.XmlHook: a node that is neither Y.XmlElement nor Y.XmlText
Hook(parent) ==
    [kind |-> "hook", nodeName |-> "", attrs |-> EmptyMap, kids |-> <<>>,
     parent |-> parent, deleted |-> FALSE, redone |-> 0, text |-> <<>>]

\* doc.get("xml", Y.XmlElement): an empty element without attributes
InitNodes == <<Element("UNDEFINED", EmptyMap, 0)>>

\* firstChild / nextSibling walk the children that are not deleted
LiveKids(ns, h) == SelectSeq(ns[h].kids, LAMBDA k : ~ns[k].deleted)

\* the characters of a text run that are there (a mark d or g is a removed one)
IsLiveChar(ch) == ch.m \notin {"d", "g"}
LiveChars(chars) == SelectSeq(chars, IsLiveChar)

\* element.getAttribute(key): the attributes of a deleted element are deleted with it
getAttribute(ns, h, key) ==
    IF ns[h].deleted THEN None ELSE Get(ns[h].attrs, key)

getAttributes(ns, h) == IF ns[h].deleted THEN EmptyMap ELSE ns[h].attrs

RECURSIVE Depth(_, _)
Depth(ns, h) == IF ns[h].parent = 0 THEN 0 ELSE 1 + Depth(ns, ns[h].parent)

RECURSIVE LiveDescendants(_, _)
\* h and everything below it that is in the tree, in document order
LiveDescendants(ns, h) ==
    LET RECURSIVE Over(_)
        Over(ks) == IF ks = <<>> THEN <<>>
                    ELSE LiveDescendants(ns, Head(ks)) \o Over(Tail(ks))
    IN <<h>> \o Over(LiveKids(ns, h))

\* the handles of the nodes that are in the tree
InTree(ns) == Range(LiveDescendants(ns, RootH))

-----------------------------------------------------------------------------
(* Text runs: a character is [c, bold, m]; m marks what the running       *)
(* transaction did to it: o untouched, n inserted, d deleted, g inserted   *)
(* and deleted, f formatting changed.  Between transactions every          *)
(* character is marked o.                                                  *)

Char(c, bold) == [c |-> c, bold |-> bold, m |-> "o"]

RECURSIVE toDelta(_)
\* Y.XmlText.toDelta(): runs of equally formatted characters
toDelta(chars) ==
    IF chars = <<>> THEN <<>>
    ELSE LET b == Head(chars).bold
             RECURSIVE RunLen(_)
             RunLen(cs) == IF cs = <<>> \/ Head(cs).bold # b THEN 0
                           ELSE 1 + RunLen(Tail(cs))
             n == RunLen(chars)
             str == [i \in 1..n |-> chars[i].c]
             op == IF b THEN [insert |-> str, attributes |-> [bold |-> TRUE]]
                   ELSE [insert |-> str]
         IN <<op>> \o toDelta(SubSeq(chars, n + 1, Len(chars)))

RECURSIVE applyDeltaPrelim(_)
\* text.applyDelta(delta) on a fresh Y.XmlText: every op inserts its string
\* with exactly the attributes of the op
applyDeltaPrelim(delta) ==
    IF delta = <<>> THEN <<>>
    ELSE LET op == Head(delta)
             b == "attributes" \in DOMAIN op /\ "bold" \in DOMAIN op.attributes
             cs == IF "insert" \in DOMAIN op
                   THEN [i \in DOMAIN op.insert |-> Char(op.insert[i], b)]
                   ELSE <<>>
         IN cs \o applyDeltaPrelim(Tail(delta))

-----------------------------------------------------------------------------
(* serialize *)

SerializeError == [error |-> "Unexpected node type"]

RECURSIVE serialize(_, _)
serialize(ns, h) ==
    IF ns[h].kind = "element" THEN
        LET ks == LiveKids(ns, h)
            ms == [i \in DOMAIN ks |-> serialize(ns, ks[i])]
        IN IF \E i \in DOMAIN ms : ms[i] = SerializeError THEN SerializeError
           ELSE [element |-> [tagName |-> ns[h].nodeName,
                              attributes |-> getAttributes(ns, h),
                              children |-> ms]]
    ELSE IF ns[h].kind = "text" THEN
        [text |-> [delta |-> toDelta(LiveChars(ns[h].text))]]
    ELSE SerializeError

-----------------------------------------------------------------------------
(* createNodes: node specs to fresh (not yet inserted) nodes.  A fresh    *)
(* element is [kind, nodeName, attrs, kids], a fresh text run [kind,       *)
(* text].  The result says whether the call threw, the nodes built and     *)
(* the uuid counter after the call.                                        *)

\* new Y.XmlElement(name): the node name of an element built without one
ElementName(el) == IF "name" \in DOMAIN el THEN el.name ELSE "UNDEFINED"

\* element.setAttribute("$id", attributes?.id ?? uuid()), then every given attribute
SpecAttrs(el, n) ==
    LET given == IF "attributes" \in DOMAIN el THEN el.attributes ELSE EmptyMap
        first == IF "id" \in DOMAIN given THEN given["id"] ELSE uuid(n)
    IN [k \in DOMAIN given \cup {"$id"} |->
            IF k \in DOMAIN given THEN given[k] ELSE first]

UsesUuid(el) == ~("attributes" \in DOMAIN el /\ "id" \in DOMAIN el.attributes)

RECURSIVE createNodes(_, _)
createNodes(children, n) ==
    IF children = <<>> THEN [ok |-> TRUE, nodes |-> <<>>, uuid |-> n]
    ELSE
      LET child == Head(children) IN
      IF "text" \in DOMAIN child THEN
          LET t == [kind |-> "text",
                    text |-> IF "delta" \in DOMAIN child.text
                             THEN applyDeltaPrelim(child.text.delta) ELSE <<>>]
              rest == createNodes(Tail(children), n)
          IN [rest EXCEPT !.nodes = <<t>> \o @]
      ELSE IF "element" \in DOMAIN child THEN
          LET el == child.element
              n1 == IF UsesUuid(el) THEN n + 1 ELSE n
              sub == IF "children" \in DOMAIN el THEN createNodes(el.children, n1)
                     ELSE [ok |-> TRUE, nodes |-> <<>>, uuid |-> n1]
              e == [kind |-> "element", nodeName |-> ElementName(el),
                    attrs |-> SpecAttrs(el, n), kids |-> sub.nodes]
              rest == createNodes(Tail(children), sub.uuid)
          IN IF ~sub.ok THEN [ok |-> FALSE, nodes |-> <<>>, uuid |-> sub.uuid]
             ELSE [rest EXCEPT !.nodes = <<e>> \o @]
      ELSE \* throw new Error("Unexpected XML data item (not text or element).")
          [ok |-> FALSE, nodes |-> <<>>, uuid |-> n]

RECURSIVE CountFresh(_)
\* how many nodes a sequence of fresh nodes holds
CountFresh(fs) ==
    IF fs = <<>> THEN 0
    ELSE (IF Head(fs).kind = "element" THEN 1 + CountFresh(Head(fs).kids) ELSE 1)
         + CountFresh(Tail(fs))

-----------------------------------------------------------------------------
(* The engine's child-list primitives.  Each returns the tree after the   *)
(* call with the handles it touched; the transaction around it            *)
(* (Transact, below) turns that into events.                               *)

RECURSIVE Integrate(_, _, _)
\* fresh nodes become nodes of the tree under parent p, document order;
\* the result is the tree and the handles of the top-level nodes
Integrate(ns, p, fs) ==
    IF fs = <<>> THEN [ns |-> ns, hs |-> <<>>]
    ELSE
      LET f == Head(fs)
          h == Len(ns) + 1
          me == IF f.kind = "element" THEN Element(f.nodeName, f.attrs, p)
                ELSE IF f.kind = "text" THEN TextRun(f.text, p)
                ELSE Hook(p)
          below == IF f.kind = "element" THEN Integrate(Append(ns, me), h, f.kids)
                   ELSE [ns |-> Append(ns, me), hs |-> <<>>]
          ns1 == [below.ns EXCEPT ![h].kids = below.hs]
          rest == Integrate(ns1, p, Tail(fs))
      IN [ns |-> rest.ns, hs |-> <<h>> \o rest.hs]

\* the place in the child list (0: the front) after which index `index` lies:
\* behind the index-th child that is not deleted
ListPos(ns, h, index) ==
    IF index = 0 THEN 0
    ELSE LET ks == ns[h].kids
             live == {i \in DOMAIN ks : ~ns[ks[i]].deleted}
             upto(i) == Cardinality({j \in live : j <= i})
         IN CHOOSE i \in live : upto(i) = index

\* an insertion that takes the place of the child behind the position
InsertOver(s, pos, xs) == SubSeq(s, 1, pos) \o xs \o SubSeq(s, pos + 2, Len(s))

InsertAt(s, pos, xs) == SubSeq(s, 1, pos) \o xs \o SubSeq(s, pos + 1, Len(s))

IndexOf(s, x) == CHOOSE i \in DOMAIN s : s[i] = x

\* typeListInsertGenericsAfter: the fresh nodes go behind place pos of h's
\* child list; into a deleted parent they are deleted on arrival
ListInsertAfter(ns, h, pos, fs) ==
    IF fs = <<>> \/ ns[h].deleted THEN ns
    ELSE LET r == Integrate(ns, h, fs)
         IN [r.ns EXCEPT ![h].kids = InsertAt(@, pos, r.hs)]

RECURSIVE Kill(_, _)
\* item.delete(): the node, its attributes and everything below it
Kill(ns, h) ==
    LET RECURSIVE Over(_, _)
        Over(m, ks) == IF ks = <<>> THEN m ELSE Over(Kill(m, Head(ks)), Tail(ks))
    IN IF ns[h].deleted THEN ns
       ELSE [Over(ns, LiveKids(ns, h)) EXCEPT ![h].deleted = TRUE]

RECURSIVE KillAll(_, _)
KillAll(ns, hs) == IF hs = <<>> THEN ns ELSE KillAll(Kill(ns, Head(hs)), Tail(hs))

\* typeListDelete(parent, index, length): deletes what there is of the range
\* and then throws when the range was longer than what was there
ListDelete(ns, h, index, length) ==
    LET ks == LiveKids(ns, h)
        hit == SubSeq(ks, index + 1, Min(Len(ks), index + length))
    IN IF length <= 0 THEN [ns |-> ns, threw |-> FALSE]
       ELSE [ns |-> KillAll(ns, hit), threw |-> index + length > Len(ks)]

-----------------------------------------------------------------------------
(* The engine's text primitives, on the character list of one text run.   *)
(* Three elementary edits: tins (insert characters at an index), tdel      *)
(* (delete a range), tfmt (set the bold flag of a range, one value per     *)
(* character).  Indices count the characters that are there.               *)

\* the place in the full list of the i-th character that is there (0: the front)
CharPos(cs, i) ==
    IF i = 0 THEN 0
    ELSE LET live == {j \in DOMAIN cs : IsLiveChar(cs[j])}
         IN CHOOSE j \in live : Cardinality({x \in live : x <= j}) = i

LiveLen(cs) == Len(LiveChars(cs))

\* the edit applied, with the marks of the running transaction
EditChars(cs, e) ==
    IF e.op = "tins" THEN
        InsertAt(cs, CharPos(cs, e.index),
                 [i \in DOMAIN e.chars |-> [c |-> e.chars[i].c, bold |-> e.chars[i].bold, m |-> "n"]])
    ELSE LET lo == CharPos(cs, e.index + 1)
             n == IF e.op = "tdel" THEN e.length ELSE Len(e.bolds)
             hi == CharPos(cs, e.index + n)
             liveNo(j) == Cardinality({x \in lo..j : IsLiveChar(cs[x])})
         IN [j \in DOMAIN cs |->
               IF j < lo \/ j > hi \/ ~IsLiveChar(cs[j]) THEN cs[j]
               ELSE IF e.op = "tdel"
                    THEN [cs[j] EXCEPT !.m = IF @ = "n" THEN "g" ELSE "d"]
                    ELSE IF cs[j].bold = e.bolds[liveNo(j)] THEN cs[j]
                         ELSE [cs[j] EXCEPT !.bold = e.bolds[liveNo(j)],
                                            !.m = IF @ = "n" THEN "n" ELSE "f"]]

\* the edit that takes the edit back
InverseEdit(cs, e) ==
    LET live == LiveChars(cs) IN
    IF e.op = "tins" THEN [op |-> "tdel", index |-> e.index, length |-> Len(e.chars)]
    ELSE IF e.op = "tdel" THEN
        [op |-> "tins", index |-> e.index,
         chars |-> [i \in 1..e.length |-> [c |-> live[e.index + i].c, bold |-> live[e.index + i].bold]]]
    ELSE [op |-> "tfmt", index |-> e.index,
          bolds |-> [i \in DOMAIN e.bolds |-> live[e.index + i].bold]]

\* an edit that changes nothing is no edit
IsNoEdit(cs, e) ==
    LET live == LiveChars(cs) IN
    IF e.op = "tins" THEN e.chars = <<>>
    ELSE IF e.op = "tdel" THEN e.length <= 0
    ELSE \A i \in DOMAIN e.bolds : live[e.index + i].bold = e.bolds[i]

HasBold(attributes) == "bold" \in DOMAIN attributes

\* Y.XmlText.insert(index, text, attributes): past the end it appends; without
\* attributes the text takes the formatting of the character before it
TextInsertEdits(cs, index, text, attributes) ==
    LET live == LiveChars(cs)
        pos == Min(index, Len(live))
        b == IF attributes = None THEN (pos > 0 /\ live[pos].bold)
             ELSE HasBold(The(attributes))
    IN IF text = <<>> THEN <<>>
       ELSE <<[op |-> "tins", index |-> pos,
               chars |-> [i \in DOMAIN text |-> [c |-> text[i], bold |-> b]]]>>

\* Y.XmlText.delete(index, length): what there is of the range
TextDeleteEdits(cs, index, length) ==
    LET n == Min(length, LiveLen(cs) - index)
    IN IF n <= 0 THEN <<>> ELSE <<[op |-> "tdel", index |-> index, length |-> n]>>

\* Y.XmlText.format(index, length, attributes): nothing at or past the end;
\* a range that runs past the end is filled up with newlines
TextFormatEdits(cs, index, length, attributes) ==
    LET live == LiveChars(cs)
        L == Len(live)
        n == Min(length, L - index)
        over == index + length - L
        fmt == IF HasBold(attributes)
               THEN <<[op |-> "tfmt", index |-> index, bolds |-> [i \in 1..n |-> TRUE]]>>
               ELSE <<>>
        fill == IF over > 0
                THEN <<[op |-> "tins", index |-> L,
                        chars |-> [i \in 1..over |->
                                     [c |-> "\n", bold |-> HasBold(attributes) \/ live[L].bold]]]>>
                ELSE <<>>
    IN IF length <= 0 \/ index >= L THEN <<>> ELSE fmt \o fill

-----------------------------------------------------------------------------
(* A running transaction: the tree so far, the types touched so far (a    *)
(* touch is [h, key]: key None for the child list or the characters, Some  *)
(* k for attribute k), and the inverse text edits for the undo manager.    *)

Work(ns) == [ns |-> ns, touched |-> <<>>, tinv |-> <<>>, threw |-> FALSE]

Touch(w, h, key) == [w EXCEPT !.touched = Append(@, [h |-> h, key |-> key])]

\* parent.insert / insertAfter / push once the place is known
\* the work w with the tree ns1 a call on the child list of h has made
Changed(w, h, ns1) ==
    IF ns1 = w.ns THEN w ELSE Touch([w EXCEPT !.ns = ns1], h, None)

WInsert(w, h, pos, fs) == Changed(w, h, ListInsertAfter(w.ns, h, pos, fs))

\* parent.delete(index, length)
Deleted(w, h, r) == [Changed(w, h, r.ns) EXCEPT !.threw = r.threw]

WDelete(w, h, index, length) == Deleted(w, h, ListDelete(w.ns, h, index, length))

\* element.setAttribute(key, value)
WSetAttr(w, h, key, value) ==
    IF w.ns[h].deleted THEN w
    ELSE Touch([w EXCEPT !.ns[h].attrs = MapSet(@, key, value)], h, Some(key))

\* element.removeAttribute(key)
WRemoveAttr(w, h, key) ==
    IF w.ns[h].deleted \/ key \notin DOMAIN w.ns[h].attrs THEN w
    ELSE Touch([w EXCEPT !.ns[h].attrs = MapDel(@, key)], h, Some(key))

RECURSIVE WEdits(_, _, _)
\* elementary text edits on text run t, in order
WEdits(w, t, es) ==
    IF es = <<>> THEN w
    ELSE LET e == Head(es)
             cs == w.ns[t].text
             w1 == IF IsNoEdit(cs, e) THEN w
                   ELSE Touch([w EXCEPT !.ns[t].text = EditChars(cs, e),
                                        !.tinv = Append(@, [h |-> t, e |-> InverseEdit(cs, e)])],
                              t, None)
         IN WEdits(w1, t, Tail(es))

-----------------------------------------------------------------------------
(* The deep-change feed: the events of one transaction, from the tree     *)
(* before it and the work record after it.                                 *)

RECURSIVE Runs(_)
\* a sequence of classified items as maximal runs of equal class
Runs(xs) ==
    IF xs = <<>> THEN <<>>
    ELSE LET RECURSIVE RunLen(_)
             RunLen(ys) == IF ys = <<>> \/ Head(ys).cls # Head(xs).cls THEN 0
                           ELSE 1 + RunLen(Tail(ys))
             n == RunLen(xs)
         IN <<SubSeq(xs, 1, n)>> \o Runs(SubSeq(xs, n + 1, Len(xs)))

\* a trailing retain without attributes is not reported
DropTrailingRetain(delta) ==
    IF delta # <<>> /\ DOMAIN delta[Len(delta)] = {"retain"}
    THEN SubSeq(delta, 1, Len(delta) - 1) ELSE delta

\* YEvent.changes.delta of element h: its children, inserted, deleted or retained
ListDelta(pre, post, h) ==
    LET added(k) == k > Len(pre)
        deletes(k) == post[k].deleted /\ (added(k) \/ ~pre[k].deleted)
        cls(k) == IF post[k].deleted
                  THEN (IF deletes(k) /\ ~added(k) THEN "delete" ELSE "skip")
                  ELSE (IF added(k) THEN "insert" ELSE "retain")
        ks == post[h].kids
        items == SelectSeq([i \in DOMAIN ks |-> [cls |-> cls(ks[i]), h |-> ks[i]]],
                           LAMBDA x : x.cls # "skip")
        runs == Runs(items)
        op(r) == IF r[1].cls = "insert" THEN [insert |-> [i \in DOMAIN r |-> r[i].h]]
                 ELSE IF r[1].cls = "delete" THEN [delete |-> Len(r)]
                 ELSE [retain |-> Len(r)]
    IN DropTrailingRetain([i \in DOMAIN runs |-> op(runs[i])])

\* YTextEvent.delta of a text run, from the marks on its characters
TextDelta(chars) ==
    LET cls(ch) == IF ch.m = "n" THEN <<"insert", ch.bold>>
                   ELSE IF ch.m = "d" THEN <<"delete", FALSE>>
                   ELSE IF ch.m = "f" THEN <<"format", ch.bold>>
                   ELSE IF ch.m = "g" THEN <<"skip", FALSE>>
                   ELSE <<"retain", FALSE>>
        items == SelectSeq([i \in DOMAIN chars |-> [cls |-> cls(chars[i]), c |-> chars[i].c]],
                           LAMBDA x : x.cls[1] # "skip")
        runs == Runs(items)
        op(r) == IF r[1].cls[1] = "insert"
                 THEN (IF r[1].cls[2]
                       THEN [insert |-> [i \in DOMAIN r |-> r[i].c], attributes |-> [bold |-> TRUE]]
                       ELSE [insert |-> [i \in DOMAIN r |-> r[i].c]])
                 ELSE IF r[1].cls[1] = "delete" THEN [delete |-> Len(r)]
                 ELSE IF r[1].cls[1] = "format"
                 THEN [retain |-> Len(r), attributes |-> [bold |-> r[1].cls[2]]]
                 ELSE [retain |-> Len(r)]
    IN DropTrailingRetain([i \in DOMAIN runs |-> op(runs[i])])

RECURSIVE Distinct(_)
\* a sequence without its repetitions, first occurrences kept
Distinct(xs) ==
    IF xs = <<>> THEN <<>>
    ELSE LET rest == Distinct(SubSeq(xs, 1, Len(xs) - 1))
             x == xs[Len(xs)]
         IN IF x \in Range(rest) THEN rest ELSE Append(rest, x)

HasAttr(ns, h, k) == ~ns[h].deleted /\ k \in DOMAIN ns[h].attrs

\* YEvent.changes.keys of element h: the attributes the transaction touched
KeyChanges(pre, w, h) ==
    LET ts == SelectSeq(w.touched, LAMBDA t : t.h = h /\ t.key # None)
        ks == Distinct([i \in DOMAIN ts |-> The(ts[i].key)])
        action(k) == IF HasAttr(w.ns, h, k)
                     THEN (IF HasAttr(pre, h, k) THEN "update" ELSE "add")
                     ELSE (IF HasAttr(pre, h, k) THEN "delete" ELSE "none")
    IN SelectSeq([i \in DOMAIN ks |-> [key |-> ks[i], action |-> action(ks[i])]],
                 LAMBDA c : c.action # "none")

RECURSIVE SortByDepth(_)
\* the engine hands the events of a transaction over sorted by path length
SortByDepth(evs) ==
    IF evs = <<>> THEN <<>>
    ELSE LET d == CHOOSE x \in {evs[i].depth : i \in DOMAIN evs} :
                     \A i \in DOMAIN evs : x <= evs[i].depth
         IN SelectSeq(evs, LAMBDA e : e.depth = d)
            \o SortByDepth(SelectSeq(evs, LAMBDA e : e.depth # d))

\* the events of the transaction: one for every type that was there before,
\* is there after, and was touched
Events(pre, w, txn) ==
    LET hs == Distinct([i \in DOMAIN w.touched |-> w.touched[i].h])
        types == SelectSeq(hs, LAMBDA h : h <= Len(pre) /\ ~w.ns[h].deleted)
        listTouched(h) == \E i \in DOMAIN w.touched : w.touched[i] = [h |-> h, key |-> None]
        ev(h) == [target |-> h,
                  kind |-> w.ns[h].kind,
                  delta |-> IF ~listTouched(h) THEN <<>>
                            ELSE IF w.ns[h].kind = "text" THEN TextDelta(w.ns[h].text)
                            ELSE ListDelta(pre, w.ns, h),
                  keys |-> KeyChanges(pre, w, h),
                  depth |-> Depth(w.ns, h),
                  txn |-> txn]
    IN SortByDepth([i \in DOMAIN types |-> ev(types[i])])

\* the tree when the transaction is over: the marks are gone
Settle(ns) ==
    [h \in DOMAIN ns |->
        IF ns[h].kind # "text" THEN ns[h]
        ELSE LET live == LiveChars(ns[h].text)
             IN [ns[h] EXCEPT !.text = [i \in DOMAIN live |-> Char(live[i].c, live[i].bold)]]]

-----------------------------------------------------------------------------
(* The Change Observer: the callback the constructor registers with       *)
(* observeDeep.  A notification is [root, target, elements, attributes,    *)
(* text]; target and every retain are optional values.                     *)

Truthy(d, f) == f \in DOMAIN d /\ d[f] # 0

\* an element branch that passes over the entries that only retain
ElementDeltasOfChanges(ns, delta) ==
    LET entry(d) ==
            IF "insert" \in DOMAIN d
            THEN <<[retain |-> Get(d, "retain"),
                    insert |-> [i \in DOMAIN d.insert |-> serialize(ns, d.insert[i])]]>>
            ELSE IF Truthy(d, "delete")
            THEN <<[retain |-> Get(d, "retain"), delete |-> d.delete]>>
            ELSE <<>>
    IN Flatten([i \in DOMAIN delta |-> entry(delta[i])])

\* for (const delta of yxmlEvent.changes.delta) of the element branch
ElementDeltas(ns, delta) ==
    LET entry(d) ==
            IF "insert" \in DOMAIN d
            THEN <<[retain |-> Get(d, "retain"),
                    insert |-> [i \in DOMAIN d.insert |-> serialize(ns, d.insert[i])]]>>
            ELSE IF Truthy(d, "delete")
            THEN <<[retain |-> Get(d, "retain"), delete |-> d.delete]>>
            ELSE IF Truthy(d, "retain") THEN <<[retain |-> Some(d.retain)]>>
            ELSE <<>>
    IN Flatten([i \in DOMAIN delta |-> entry(delta[i])])

\* attribute changes that report a deleted key as set
AttributeChangesAllSet(ns, h, keys) ==
    [set |-> [i \in DOMAIN keys |-> [name |-> keys[i].key,
                                     value |-> getAttribute(ns, h, keys[i].key)]],
     delete |-> <<>>]

\* yxmlEvent.changes.keys.forEach(...)
AttributeChanges(ns, h, keys) ==
    LET sets == SelectSeq(keys, LAMBDA c : c.action \in {"add", "update"})
        dels == SelectSeq(keys, LAMBDA c : c.action = "delete")
    IN [set |-> [i \in DOMAIN sets |-> [name |-> sets[i].key,
                                        value |-> getAttribute(ns, h, sets[i].key)]],
        delete |-> [i \in DOMAIN dels |-> dels[i].key]]

\* for (const delta of yxmlEvent.changes.delta) of the text branch
TextDeltas(delta) ==
    LET entry(d) ==
            IF "insert" \in DOMAIN d /\ d.insert # <<>>
            THEN <<[retain |-> Get(d, "retain"), insert |-> d.insert]>>
            ELSE IF Truthy(d, "delete")
            THEN <<[retain |-> Get(d, "retain"), delete |-> d.delete]>>
            ELSE IF Truthy(d, "retain") THEN <<[retain |-> Some(d.retain)]>>
            ELSE <<>>
    IN Flatten([i \in DOMAIN delta |-> entry(delta[i])])

NoAttributeChanges == [set |-> <<>>, delete |-> <<>>]

\* a notification that repeats the element changes as text changes
ElementNoteWithText(ns, e, els) ==
    [ok |-> TRUE,
     note |-> [root |-> e.target = RootH,
               target |-> getAttribute(ns, e.target, "$id"),
               elements |-> els,
               attributes |-> AttributeChanges(ns, e.target, e.keys),
               text |-> els]]

\* the notification of an event on an element, whose element changes are els;
\* serialize throws for a node that is neither element nor text
ElementNote(ns, e, els) ==
    IF \E i \in DOMAIN els : "insert" \in DOMAIN els[i] /\ SerializeError \in Range(els[i].insert)
    THEN [ok |-> FALSE, note |-> <<>>]
    ELSE [ok |-> TRUE,
          note |-> [root |-> e.target = RootH,
                    target |-> getAttribute(ns, e.target, "$id"),
                    elements |-> els,
                    attributes |-> AttributeChanges(ns, e.target, e.keys),
                    text |-> <<>>]]

\* a loop body that addresses a text event by the text run itself
ObserveEventOwnTarget(ns, e) ==
    IF e.kind = "element" THEN ElementNote(ns, e, ElementDeltas(ns, e.delta))
    ELSE [ok |-> e.kind = "text",
          note |-> [root |-> e.target = RootH,
                    target |-> getAttribute(ns, e.target, "$id"),
                    elements |-> <<>>,
                    attributes |-> NoAttributeChanges,
                    text |-> TextDeltas(e.delta)]]

\* the body of the loop for one event: the notification, or a throw
ObserveEvent(ns, e) ==
    IF e.kind = "element" THEN ElementNote(ns, e, ElementDeltas(ns, e.delta))
    ELSE IF e.kind = "text" THEN
        [ok |-> TRUE,
         note |-> [root |-> FALSE,
                   target |-> IF ns[e.target].parent = 0 THEN None
                              ELSE getAttribute(ns, ns[e.target].parent, "$id"),
                   elements |-> <<>>,
                   attributes |-> NoAttributeChanges,
                   text |-> TextDeltas(e.delta)]]
    ELSE \* throw new Error("Unexpected target type")
        [ok |-> FALSE, note |-> <<>>]

RECURSIVE Observe(_, _)
RECURSIVE ObserveOn(_, _, _)
\* the callback on one batch of events: the notifications sent, and whether it threw
Observe(ns, evs) ==
    IF evs = <<>> THEN [notes |-> <<>>, threw |-> FALSE]
    ELSE ObserveOn(ns, evs, ObserveEvent(ns, Head(evs)))

\* a loop that passes over an event it cannot translate and goes on
ObserveOnSkipping(ns, evs, r) ==
    IF ~r.ok THEN Observe(ns, Tail(evs))
    ELSE [Observe(ns, Tail(evs)) EXCEPT !.notes = <<r.note>> \o @]

\* the loop after the first event of evs gave r
ObserveOn(ns, evs, r) ==
    IF ~r.ok THEN [notes |-> <<>>, threw |-> TRUE]
    ELSE [Observe(ns, Tail(evs)) EXCEPT !.notes = <<r.note>> \o @]

-----------------------------------------------------------------------------
(* The undo manager's capture of a transaction.  A stack item is [ins,    *)
(* del, attrs, tops]: the handles inserted and deleted, the attributes     *)
(* touched with the value each had before, the inverse text edits.         *)

StackItem(pre, w) ==
    LET post == w.ns
        keyTouches == SelectSeq(w.touched, LAMBDA t : t.key # None /\ t.h <= Len(pre))
        pairs == Distinct([i \in DOMAIN keyTouches |-> <<keyTouches[i].h, The(keyTouches[i].key)>>])
    IN [ins |-> {h \in DOMAIN post : h > Len(pre)},
        del |-> {h \in DOMAIN post : post[h].deleted /\ (h > Len(pre) \/ ~pre[h].deleted)},
        attrs |-> [i \in DOMAIN pairs |->
                     [h |-> pairs[i][1], key |-> pairs[i][2],
                      old |-> getAttribute(pre, pairs[i][1], pairs[i][2])]],
        tops |-> SelectSeq(w.tinv, LAMBDA t : t.h <= Len(pre))]

\* lastOp.deletions / lastOp.insertions merged with those of the transaction
MergeItems(a, b) ==
    [ins |-> a.ins \cup b.ins,
     del |-> a.del \cup b.del,
     attrs |-> a.attrs \o SelectSeq(b.attrs, LAMBDA x :
                  ~\E i \in DOMAIN a.attrs : a.attrs[i].h = x.h /\ a.attrs[i].key = x.key),
     tops |-> a.tops \o b.tops]

\* afterTransactionHandler; mode is "do", "undo" or "redo"
Capture(st, item, mode) ==
    IF mode = "undo" THEN
        [st EXCEPT !.redo = Append(@, item), !.lastChange = 0]
    ELSE IF mode = "redo" THEN
        [st EXCEPT !.undo = Append(@, item)]
    ELSE IF st.lastChange > 0 /\ ~st.elapsed /\ st.undo # <<>> THEN
        [st EXCEPT !.undo[Len(st.undo)] = MergeItems(@, item), !.redo = <<>>,
                   !.lastChange = 1, !.elapsed = FALSE]
    ELSE
        [st EXCEPT !.undo = Append(@, item), !.redo = <<>>,
                   !.lastChange = 1, !.elapsed = FALSE]

\* the end of a transaction: the tree is post, the observer has been called
\* with the events evs and gave obs, the undo manager captures; trees keeps
\* the tree each transaction of the call has left
Commit(st, w, mode, evs, post, obs) ==
    LET st1 == [st EXCEPT !.nodes = post,
                          !.txn = @ + 1,
                          !.sink = @ \o obs.notes,
                          !.events = @ \o evs,
                          !.trees = Append(@, post),
                          !.threw = w.threw \/ obs.threw]
    IN IF evs = <<>> THEN st1
       ELSE Capture(st1, StackItem(st.nodes, w), mode)

\* an observer that is only called for the transactions of commands and merges
NotifyChangesOnly(st, w, mode, evs, post) ==
    Commit(st, w, mode, evs, post,
           IF mode = "do" THEN Observe(post, evs) ELSE [notes |-> <<>>, threw |-> FALSE])

\* a JS value that is a function, and one that is a boolean
Function(name) == [type |-> "function", name |-> name]
Boolean(b) == [type |-> "boolean", value |-> b]

\* what the callback gives when its notifyChanges is f: a value that is not a
\* function cannot be called, the first event of the batch throws a TypeError
Called(f, evs, obs) ==
    IF f.type = "function" THEN obs ELSE [notes |-> <<>>, threw |-> evs # <<>>]

Notify(st, w, mode, evs, post) ==
    Commit(st, w, mode, evs, post, Called(st.notifyChanges, evs, Observe(post, evs)))

\* transact(doc, f): the work of f is in w; the observers are called, the undo
\* manager captures, and what f or an observer threw is thrown on.  The events
\* carry txn, the number of the transaction within the call.
Transact(st, w, mode) ==
    IF w.touched = <<>> THEN [st EXCEPT !.threw = w.threw]
    ELSE Notify(st, w, mode, Events(st.nodes, w, st.txn + 1), Settle(w.ns))

-----------------------------------------------------------------------------
(* undo() and redo(): popStackItem of the undo manager *)

RECURSIVE Latest(_, _)
\* followRedone: the newest copy of a node that was deleted and brought back
Latest(ns, h) == IF ns[h].redone = 0 THEN h ELSE Latest(ns, ns[h].redone)

RECURSIVE Trace(_, _, _)
\* k, or the copy of k, that is a child of p; 0 when there is none
Trace(ns, k, p) ==
    IF ns[k].parent = p THEN k
    ELSE IF ns[k].redone = 0 THEN 0
    ELSE Trace(ns, ns[k].redone, p)

RECURSIVE RedoItem(_, _, _)
\* redoItem: a deleted node comes back as a copy at its old place; what was
\* below it comes back by its own redoItem
RedoItem(w, h, toRedo) ==
    IF w.ns[h].redone # 0 \/ h = RootH THEN w
    ELSE
      LET p == w.ns[h].parent
          w1 == IF w.ns[p].deleted /\ w.ns[p].redone = 0 /\ p \in toRedo
                THEN RedoItem(w, p, toRedo) ELSE w
          ns == w1.ns
          p2 == IF ns[p].deleted THEN Latest(ns, p) ELSE p
          sibs == ns[p].kids
          idx == IndexOf(sibs, h)
          lefts == {i \in 1..(idx - 1) : Trace(ns, sibs[i], p2) # 0}
          left == IF lefts = {} THEN 0
                  ELSE Trace(ns, sibs[CHOOSE i \in lefts : \A j \in lefts : j <= i], p2)
          pos == IF left = 0 THEN 0 ELSE IndexOf(ns[p2].kids, left)
          h2 == Len(ns) + 1
          copy == [ns[h] EXCEPT !.parent = p2, !.deleted = FALSE, !.redone = 0, !.kids = <<>>]
          ns2 == [Append(ns, copy) EXCEPT ![h].redone = h2, ![p2].kids = InsertAt(@, pos, <<h2>>)]
      IN IF ns[p2].deleted THEN w1
         ELSE Touch([w1 EXCEPT !.ns = ns2], p2, None)

RECURSIVE RedoAll(_, _, _)
RedoAll(w, hs, toRedo) ==
    IF hs = {} THEN w
    ELSE LET h == CHOOSE x \in hs : \A y \in hs : x <= y
         IN RedoAll(RedoItem(w, h, toRedo), hs \ {h}, toRedo)

RECURSIVE DeleteAll(_, _)
\* the insertions of the stack item are deleted, the newest first
DeleteAll(w, hs) ==
    IF hs = {} THEN w
    ELSE LET h == CHOOSE x \in hs : \A y \in hs : y <= x
             t == Latest(w.ns, h)
             w1 == IF w.ns[t].deleted THEN w
                   ELSE Touch([w EXCEPT !.ns = Kill(w.ns, t)], w.ns[t].parent, None)
         IN DeleteAll(w1, hs \ {h})

RECURSIVE RestoreAttrs(_, _)
\* the attribute values of before the stack item come back
RestoreAttrs(w, as) ==
    IF as = <<>> THEN w
    ELSE LET a == as[Len(as)]
             t == Latest(w.ns, a.h)
             w1 == IF a.old = None THEN WRemoveAttr(w, t, a.key)
                   ELSE WSetAttr(w, t, a.key, The(a.old))
         IN RestoreAttrs(w1, SubSeq(as, 1, Len(as) - 1))

RECURSIVE RestoreText(_, _)
\* the inverse text edits, the last edit first
RestoreText(w, tops) ==
    IF tops = <<>> THEN w
    ELSE LET t == tops[Len(tops)]
             r == Latest(w.ns, t.h)
             w1 == IF w.ns[r].deleted THEN w ELSE WEdits(w, r, <<t.e>>)
         IN RestoreText(w1, SubSeq(tops, 1, Len(tops) - 1))

\* characters inserted and deleted within the stack item are not brought
\* back: a text run on which nothing is left to do has not changed
DropIdle(w) ==
    LET idle(t) == t.key = None /\ w.ns[t.h].kind = "text"
                   /\ \A i \in DOMAIN w.ns[t.h].text : w.ns[t.h].text[i].m \in {"o", "g"}
    IN [w EXCEPT !.touched = SelectSeq(@, LAMBDA t : ~idle(t))]

\* the nodes a stack item deleted that are to come back
ToRedo(ns, item) == {h \in item.del \ item.ins : ns[h].deleted}

\* one stack item undone, as one transaction's work
UndoWork(ns, item) ==
    DropIdle(RestoreText(RestoreAttrs(DeleteAll(RedoAll(Work(ns), ToRedo(ns, item), ToRedo(ns, item)),
                                                item.ins),
                                      item.attrs),
                         item.tops))

RECURSIVE PopStackItem(_, _)
RECURSIVE Popped(_, _, _)
\* popStackItem(undoManager, stack, eventType): stack items are popped until
\* one of them changes something; mode "undo" pops the undo stack
PopStackItem(st, mode) ==
    LET stack == IF mode = "undo" THEN st.undo ELSE st.redo
        rest == SubSeq(stack, 1, Len(stack) - 1)
    IN IF stack = <<>> THEN st
       ELSE Popped(IF mode = "undo" THEN [st EXCEPT !.undo = rest] ELSE [st EXCEPT !.redo = rest],
                   mode, UndoWork(st.nodes, stack[Len(stack)]))

\* the stack item is off the stack in st1 and w is the work of undoing it
Popped(st1, mode, w) ==
    IF w.touched = <<>> THEN PopStackItem(st1, mode) ELSE Transact(st1, w, mode)

-----------------------------------------------------------------------------
(* The Change Applier.  The state of a call in progress is st: the fields *)
(* of the document, `elapsed` (whether the undo manager's capture timeout  *)
(* has run out since the last captured change), the notifications and      *)
(* events of the call so far, and whether the call has thrown.             *)

Throw(st) == [st EXCEPT !.threw = TRUE]

Has(c, f) == f \in DOMAIN c

RECURSIVE findNodeOrItsText(_, _, _)
\* a search that gives the text run of the element found, when it has one
findNodeOrItsText(ns, nodeID, root) ==
    IF nodeID = "" THEN root
    ELSE IF ns[root].kind # "element" THEN 0
    ELSE IF getAttribute(ns, root, "$id") = Some(nodeID)
    THEN (IF LiveKids(ns, root) # <<>> /\ ns[LiveKids(ns, root)[1]].kind = "text"
          THEN LiveKids(ns, root)[1] ELSE root)
    ELSE LET RECURSIVE Over(_)
             Over(ks) == IF ks = <<>> THEN 0
                         ELSE LET child == findNodeOrItsText(ns, nodeID, Head(ks))
                              IN IF child # 0 THEN child ELSE Over(Tail(ks))
         IN Over(LiveKids(ns, root))

RECURSIVE findNode(_, _, _)
\* findNode(nodeID, root): the first element in document order whose $id is
\* nodeID; 0 for null
findNode(ns, nodeID, root) ==
    IF nodeID = "" THEN root
    ELSE IF ns[root].kind # "element" THEN 0
    ELSE IF getAttribute(ns, root, "$id") = Some(nodeID) THEN root
    ELSE LET RECURSIVE Over(_)
             Over(ks) == IF ks = <<>> THEN 0
                         ELSE LET child == findNode(ns, nodeID, Head(ks))
                              IN IF child # 0 THEN child ELSE Over(Tail(ks))
         IN Over(LiveKids(ns, root))

\* an undo that takes the redo stack
doUndoOfRedoStack(st) == PopStackItem(st, "redo")

doUndo(st) == PopStackItem(st, "undo")

doRedo(st) == PopStackItem(st, "redo")

\* the place of child k among the children of h that are there, from 0; -1 when it is not
LiveIndex(ns, h, k) ==
    LET ks == LiveKids(ns, h)
    IN IF k \in Range(ks) THEN IndexOf(ks, k) - 1 ELSE -1

\* a delete that lets the top-level element be
doDeleteBelowTop(st, h) ==
    LET p == st.nodes[h].parent
        i == LiveIndex(st.nodes, p, h)
    IN IF p = 0 \/ i < 0 THEN st
       ELSE Transact(st, WDelete(Work(st.nodes), p, i, 1), "do")

doDelete(st, h) ==
    LET p == st.nodes[h].parent
        i == LiveIndex(st.nodes, p, h)
    IN IF p = 0 THEN Throw(st)     \* Cannot delete top-level element.
       ELSE IF i < 0 THEN Throw(st)     \* Element was not found among parent's children.
       ELSE Transact(st, WDelete(Work(st.nodes), p, i, 1), "do")

\* the first child element of h whose $id is `after`; 0 when there is none
AfterElement(ns, h, after) ==
    LET ks == LiveKids(ns, h)
        hits == {i \in DOMAIN ks : ns[ks[i]].kind = "element"
                                   /\ getAttribute(ns, ks[i], "$id") = Some(after)}
    IN IF hits = {} THEN 0 ELSE ks[CHOOSE i \in hits : \A j \in hits : i <= j]

\* element.insert(index, nodes): throws when index is past the children
ElementInsert(st, h, index, fs) ==
    IF index > Len(LiveKids(st.nodes, h)) THEN Throw(st)
    ELSE Transact(st, WInsert(Work(st.nodes), h, ListPos(st.nodes, h, index), fs), "do")

\* an insertion for which `index`, when given, comes before `after`
InsertMadeAtIndex(st, h, ic, afterElement, made) ==
    IF ~made.ok THEN Throw([st EXCEPT !.uuid = made.uuid])
    ELSE IF afterElement # 0 /\ ~Has(ic, "index") THEN
        Transact([st EXCEPT !.uuid = made.uuid],
                 WInsert(Work(st.nodes), h, IndexOf(st.nodes[h].kids, afterElement), made.nodes), "do")
    ELSE ElementInsert([st EXCEPT !.uuid = made.uuid], h,
                       IF Has(ic, "index") THEN ic.index ELSE Len(LiveKids(st.nodes, h)),
                       made.nodes)

\* the insertion once createNodes(children) has returned made; afterElement
\* is 0 when the command names no `after`
InsertMade(st, h, ic, afterElement, made) ==
    IF ~made.ok THEN Throw([st EXCEPT !.uuid = made.uuid])
    ELSE IF afterElement # 0 THEN
        Transact([st EXCEPT !.uuid = made.uuid],
                 WInsert(Work(st.nodes), h, IndexOf(st.nodes[h].kids, afterElement), made.nodes), "do")
    ELSE ElementInsert([st EXCEPT !.uuid = made.uuid], h,
                       IF Has(ic, "index") THEN ic.index ELSE Len(LiveKids(st.nodes, h)),
                       made.nodes)

\* an insertion that goes to the end when the child named by `after` is not found
InsertAfterOrAppend(st, h, ic, afterElement) ==
    InsertMade(st, h, ic, afterElement, createNodes(ic.children, st.uuid))

\* the insertion once the loop that looks for `after` has ended with afterElement
InsertAfter(st, h, ic, afterElement) ==
    IF Has(ic, "after") /\ ic.after # "" /\ afterElement = 0 THEN Throw(st)
    ELSE InsertMade(st, h, ic, afterElement, createNodes(ic.children, st.uuid))

doInsertChildren(st, h, ic) ==
    InsertAfter(st, h, ic,
                IF Has(ic, "after") /\ ic.after # "" THEN AfterElement(st.nodes, h, ic.after) ELSE 0)

\* element.delete(index, length) once the start of the range is known
DeleteFrom(st, h, index, length) ==
    Transact(st, WDelete(Work(st.nodes), h, index, length), "do")

\* the deletion once the loop that looks for `after` has ended with afterElement
DeleteAfter(st, h, dc, afterElement) ==
    IF afterElement = 0 THEN Throw(st)
    ELSE DeleteFrom(st, h, LiveIndex(st.nodes, h, afterElement), dc.length)

doDeleteChildren(st, h, dc) ==
    IF Has(dc, "after") /\ dc.after # "" THEN DeleteAfter(st, h, dc, AfterElement(st.nodes, h, dc.after))
    ELSE IF ~Has(dc, "index") THEN Throw(st)     \* No 'index' specified for deleteChildren.
    ELSE DeleteFrom(st, h, dc.index, dc.length)

RECURSIVE doRemoveAttributes(_, _, _)
doRemoveAttributes(st, h, attributes) ==
    IF attributes = <<>> \/ st.threw THEN st
    ELSE doRemoveAttributes(Transact(st, WRemoveAttr(Work(st.nodes), h, Head(attributes)), "do"),
                            h, Tail(attributes))

RECURSIVE doSetAttributes(_, _, _)
\* attributes: the entries of the object in the order of Object.keys, as <<name, value>>
doSetAttributes(st, h, attributes) ==
    IF attributes = <<>> \/ st.threw THEN st
    ELSE doSetAttributes(Transact(st, WSetAttr(Work(st.nodes), h, Head(attributes)[1], Head(attributes)[2]), "do"),
                         h, Tail(attributes))

\* element.firstChild; 0 for null
firstChild(ns, h) == IF LiveKids(ns, h) = <<>> THEN 0 ELSE LiveKids(ns, h)[1]

doInsertText(st, h, it) ==
    LET t == firstChild(st.nodes, h)
    IN IF st.nodes[h].nodeName # "text" THEN Throw(st)
       ELSE IF t = 0 \/ st.nodes[t].kind # "text" THEN Throw(st)  \* TypeError
       ELSE Transact(st, WEdits(Work(st.nodes), t,
                                TextInsertEdits(st.nodes[t].text, it.index, it.text, Get(it, "attributes"))),
                     "do")

doFormatText(st, h, ft) ==
    LET t == firstChild(st.nodes, h)
    IN IF st.nodes[h].nodeName # "text" THEN Throw(st)
       ELSE IF t = 0 \/ st.nodes[t].kind # "text" THEN Throw(st)  \* TypeError
       ELSE Transact(st, WEdits(Work(st.nodes), t,
                                TextFormatEdits(st.nodes[t].text, ft.from, ft.length,
                                                IF Has(ft, "attributes") THEN ft.attributes ELSE EmptyMap)),
                     "do")

doDeleteText(st, h, dt) ==
    LET t == firstChild(st.nodes, h)
    IN IF st.nodes[h].nodeName # "text" THEN Throw(st)
       ELSE IF t = 0 THEN Throw(st)  \* TypeError
       ELSE IF st.nodes[t].kind = "hook" THEN st
       ELSE Transact(st,
                     IF st.nodes[t].kind = "text"
                     THEN WEdits(Work(st.nodes), t, TextDeleteEdits(st.nodes[t].text, dt.index, dt.length))
                     \* the first child is an element: its delete(index, length) removes children
                     ELSE WDelete(Work(st.nodes), t, dt.index, dt.length),
                     "do")

IsElement(ns, h) == ns[h].kind = "element"

\* an order in which the attributes are set before attributes are removed
SubActionsSetFirst ==
    <<"delete", "insertChildren", "deleteChildren", "setAttributes", "removeAttributes",
      "insertText", "formatText", "deleteText", "undo", "redo">>

\* the sub-actions of a command, in the order the loop body takes them
SubActions ==
    <<"delete", "insertChildren", "deleteChildren", "removeAttributes", "setAttributes",
      "insertText", "formatText", "deleteText", "undo", "redo">>

\* sub-action f of command c on the node h the command resolved to
SubAction(st, h, c, f) ==
    IF f = "delete" THEN doDelete(st, h)
    ELSE IF f = "undo" THEN doUndo(st)
    ELSE IF f = "redo" THEN doRedo(st)
    ELSE IF ~IsElement(st.nodes, h) THEN Throw(st)
    ELSE IF f = "insertChildren" THEN doInsertChildren(st, h, c.insertChildren)
    ELSE IF f = "deleteChildren" THEN doDeleteChildren(st, h, c.deleteChildren)
    ELSE IF f = "removeAttributes" THEN doRemoveAttributes(st, h, c.removeAttributes)
    ELSE IF f = "setAttributes" THEN doSetAttributes(st, h, c.setAttributes)
    ELSE IF f = "insertText" THEN doInsertText(st, h, c.insertText)
    ELSE IF f = "formatText" THEN doFormatText(st, h, c.formatText)
    ELSE doDeleteText(st, h, c.deleteText)

RECURSIVE applySubActions(_, _, _, _)
\* the sub-actions from the i-th on, until one throws
applySubActions(st, h, c, i) ==
    IF i > Len(SubActions) \/ st.threw THEN st
    ELSE applySubActions(IF Has(c, SubActions[i]) THEN SubAction(st, h, c, SubActions[i]) ELSE st,
                         h, c, i + 1)

\* the body of the loop of applyChanges for one command
applyChange(st, c) ==
    LET h == IF Has(c, "nodeID") /\ c.nodeID # "" THEN findNode(st.nodes, c.nodeID, RootH) ELSE RootH
    IN IF h = 0 THEN Throw(st)     \* Element was not found for nodeID
       ELSE applySubActions(st, h, c, 1)

RECURSIVE applyChangesFrom(_, _, _)

\* a loop that goes on with the next command after one has thrown, and throws at the end
NextCommandAnyway(st, s, changes, i) ==
    LET r == applyChangesFrom([s EXCEPT !.threw = FALSE], changes, i + 1)
    IN IF s.threw THEN [r EXCEPT !.threw = TRUE, !.failedAt = i] ELSE r

\* the loop after command i has brought the call from st to s: a throw ends it
NextCommand(st, s, changes, i) ==
    IF s.threw THEN [s EXCEPT !.failedAt = i]
    ELSE applyChangesFrom(s, changes, i + 1)

\* a loop that takes the commands of the batch from the last to the first
applyChangesBackwards(st, changes, i) ==
    IF i > Len(changes) THEN st
    ELSE NextCommand(st, applyChange(st, changes[Len(changes) - i + 1]), changes, i)

\* the loop of applyChanges from command i on; failedAt is the command that threw
applyChangesFrom(st, changes, i) ==
    IF i > Len(changes) THEN st
    ELSE NextCommand(st, applyChange(st, changes[i]), changes, i)

\* the state of a call that starts on document d
Call(d, elapsed) ==
    [nodes |-> d.nodes, uuid |-> d.uuid, undo |-> d.undo, redo |-> d.redo,
     lastChange |-> d.lastChange, notifyChanges |-> d.notifyChanges, elapsed |-> elapsed,
     sink |-> <<>>, events |-> <<>>, trees |-> <<>>, txn |-> 0, threw |-> FALSE, failedAt |-> 0]

\* ServerXmlDocument.applyChanges(changes)
applyChanges(d, changes, elapsed) == applyChangesFrom(Call(d, elapsed), changes, 1)

-----------------------------------------------------------------------------
(* applyBackendChanges: Y.applyUpdate merges a remote update in one       *)
(* transaction.  An update is the sequence of the primitive changes it     *)
(* carries.                                                                *)

RemoteOp(w, o) ==
    IF o.op = "insert" THEN WInsert(w, o.h, ListPos(w.ns, o.h, o.index), o.nodes)
    ELSE IF o.op = "delete" THEN WDelete(w, o.h, o.index, o.length)
    ELSE IF o.op = "set" THEN WSetAttr(w, o.h, o.key, o.value)
    ELSE IF o.op = "remove" THEN WRemoveAttr(w, o.h, o.key)
    ELSE WEdits(w, o.h, TextInsertEdits(w.ns[o.h].text, o.index, o.text, None))

RECURSIVE MergeUpdate(_, _)
MergeUpdate(w, update) ==
    IF update = <<>> THEN w ELSE MergeUpdate(RemoteOp(w, Head(update)), Tail(update))

\* ServerXmlDocument.applyBackendChanges(changes)
applyBackendChanges(d, update, elapsed) ==
    Transact(Call(d, elapsed), MergeUpdate(Work(d.nodes), update), "do")

-----------------------------------------------------------------------------
(* The inputs: node specs, commands, batches of commands, remote updates  *)

Bold == [bold |-> TRUE]

ElA == [element |-> [name |-> "div", attributes |-> [id |-> "a"]]]
ElB == [element |-> [name |-> "p", attributes |-> [id |-> "b"], children |-> <<>>]]
ElU == [element |-> [name |-> "div"]]
ElT == [element |-> [name |-> "text", attributes |-> [id |-> "t"],
                     children |-> <<[text |-> [delta |-> <<[insert |-> <<"h", "i">>]>>]]>>]]
ElAB == [element |-> [name |-> "div", attributes |-> [id |-> "a"], children |-> <<ElB>>]]
ElEmptyId == [element |-> [name |-> "div", attributes |-> [id |-> ""]]]
Bad == [comment |-> "x"]

InsA == [insertChildren |-> [children |-> <<ElA>>]]
InsB0 == [insertChildren |-> [index |-> 0, children |-> <<ElB>>]]
InsT == [insertChildren |-> [children |-> <<ElT>>]]
InsAB == [insertChildren |-> [children |-> <<ElAB>>]]
InsUinA == [nodeID |-> "a", insertChildren |-> [children |-> <<ElU>>]]
InsAfterA == [insertChildren |-> [after |-> "a", children |-> <<ElB, ElU>>]]
InsAfterAOr0 == [insertChildren |-> [after |-> "a", index |-> 0, children |-> <<ElU>>]]
InsAfterB == [insertChildren |-> [after |-> "b", children |-> <<ElU>>]]
InsInAAfterT == [nodeID |-> "a", insertChildren |-> [after |-> "t", children |-> <<ElU>>]]
InsRun == [insertChildren |-> [children |-> <<[text |-> [delta |-> <<[insert |-> <<"h">>]>>]]>>]]
InsUinT == [nodeID |-> "t", insertChildren |-> [children |-> <<ElU>>]]
InsEmptyId == [insertChildren |-> [children |-> <<ElEmptyId>>]]
InsNone == [insertChildren |-> [children |-> <<>>]]
InsBad == [insertChildren |-> [children |-> <<ElU, Bad>>]]
DelA == [nodeID |-> "a", delete |-> TRUE]
DelB == [nodeID |-> "b", delete |-> TRUE]
DelRoot == [delete |-> TRUE]
DelRootEmptyId == [nodeID |-> "", delete |-> TRUE]
DelRootById == [nodeID |-> "r", delete |-> TRUE]
DelKids == [deleteChildren |-> [index |-> 0, length |-> 1]]
DelKidsLong == [deleteChildren |-> [index |-> 1, length |-> 2]]
DelKidsAfterA == [deleteChildren |-> [after |-> "a", length |-> 1]]
DelKidsAfterB == [deleteChildren |-> [after |-> "b", length |-> 1]]
DelKidsNoPlace == [deleteChildren |-> [length |-> 1]]
SetA == [nodeID |-> "a", setAttributes |-> <<<<"k", "v">>>>]
SetRoot == [setAttributes |-> <<<<"k", "v">>, <<"l", "w">>>>]
SetIdA == [nodeID |-> "a", setAttributes |-> <<<<"$id", "b">>>>]
SetRootId == [setAttributes |-> <<<<"$id", "r">>>>]
RemA == [nodeID |-> "a", removeAttributes |-> <<"k">>]
RemIdA == [nodeID |-> "a", removeAttributes |-> <<"$id">>]
TIns == [nodeID |-> "t", insertText |-> [index |-> 1, text |-> <<"x">>]]
TInsBold == [nodeID |-> "t", insertText |-> [index |-> 0, text |-> <<"y">>, attributes |-> Bold]]
TFmt == [nodeID |-> "t", formatText |-> [from |-> 0, length |-> 1, attributes |-> Bold]]
TDel == [nodeID |-> "t", deleteText |-> [index |-> 0, length |-> 1]]
SetAndText == [nodeID |-> "a", setAttributes |-> <<<<"k", "w">>>>,
               insertText |-> [index |-> 0, text |-> <<"x">>]]
SetMissing == [nodeID |-> "zz", setAttributes |-> <<<<"k", "v">>>>]
Undo == [undo |-> TRUE]
Redo == [redo |-> TRUE]
RemSetRoot == [removeAttributes |-> <<"k">>, setAttributes |-> <<<<"k", "w">>>>]
InsDelKids == [insertChildren |-> [children |-> <<ElA>>],
               deleteChildren |-> [index |-> 0, length |-> 1]]
SetThenUndo == [setAttributes |-> <<<<"k", "w">>>>, undo |-> TRUE]
UndoAtA == [nodeID |-> "a", undo |-> TRUE]
UndoMissing == [nodeID |-> "zz", undo |-> TRUE]

\* the commands a call is made of
Commands ==
    {InsA, InsB0, InsT, InsAB, InsUinA, InsAfterA, InsAfterAOr0, InsEmptyId, InsNone, InsBad,
     DelA, DelB, DelRoot, DelRootEmptyId, DelRootById, DelKids, DelKidsLong, DelKidsAfterA,
     SetA, SetRoot, SetIdA, SetRootId, RemA, RemIdA, TIns, TInsBold, TFmt, TDel,
     SetAndText, SetMissing, Undo, Redo, UndoAtA, UndoMissing,
     RemSetRoot, InsDelKids, SetThenUndo,
     InsAfterB, InsInAAfterT, DelKidsAfterB, DelKidsNoPlace,
     InsRun, InsUinT}

\* the argument of applyChanges: one command, or one of these batches
Batches ==
    {<<c>> : c \in Commands}
    \cup {<<>>, <<InsA, InsT>>, <<InsA, InsA>>, <<InsA, SetMissing, InsT>>,
          <<InsA, SetA, Undo>>, <<InsA, DelA, InsA>>, <<InsA, InsT, SetAndText>>,
          <<InsT, TIns, TDel>>, <<InsT, TFmt>>, <<SetA, DelA>>, <<DelA, SetA>>,
          <<Undo, Undo>>, <<Undo, Redo>>, <<TIns, Undo>>, <<InsA, Undo>>,
          <<DelKidsLong, InsA>>, <<SetA, SetAndText, DelA>>, <<InsAB, DelB>>,
          <<DelA, Undo, SetA>>, <<SetA, SetRoot, Undo>>, <<SetRootId, InsA>>,
          <<UndoAtA, Redo>>, <<Redo, Redo>>, <<InsA, DelA>>}

RemoteEl == [kind |-> "element", nodeName |-> "div", attrs |-> [id |-> "a"] @@ ("$id" :> "a"), kids |-> <<>>]
RemoteHook == [kind |-> "hook"]

\* the updates a peer can send for the tree ns
Updates(ns) ==
    LET live == InTree(ns)
        hooks == {h \in live : ns[h].kind = "hook"}
        texts == {h \in live : ns[h].kind = "text"}
        setK == [op |-> "set", h |-> RootH, key |-> "k", value |-> "v"]
        setL == [op |-> "set", h |-> RootH, key |-> "l", value |-> "w"]
        setHook(h) == [op |-> "set", h |-> h, key |-> "k", value |-> "v"]
        resetK == [op |-> "set", h |-> RootH, key |-> "k", value |-> "w"]
        removeL == [op |-> "remove", h |-> RootH, key |-> "l"]
    IN {<<>>, <<setK>>, <<setK, setL>>,
        <<[op |-> "insert", h |-> RootH, index |-> 0, nodes |-> <<RemoteHook, RemoteEl>>]>>,
        <<[op |-> "insert", h |-> RootH, index |-> Len(LiveKids(ns, RootH)), nodes |-> <<RemoteEl>>]>>,
        <<[op |-> "insert", h |-> RootH, index |-> 0, nodes |-> <<RemoteHook>>]>>}
       \cup {<<[op |-> "delete", h |-> RootH, index |-> 0, length |-> 1]>> : x \in {1} \cap DOMAIN LiveKids(ns, RootH)}
       \cup {<<resetK, removeL>> : x \in {"l"} \cap DOMAIN ns[RootH].attrs}
       \cup {<<setHook(h)>> : h \in hooks}
       \cup {<<setK, setHook(h)>> : h \in hooks}
       \cup {<<setHook(h), setHook(h + 1)>> :
                h \in {x \in hooks : x + 1 \in live /\ ns[x + 1].kind = "element"}}
       \cup {<<[op |-> "tins", h |-> t, index |-> 1, text |-> <<"x">>]>> : t \in texts}

-----------------------------------------------------------------------------
(* The document as a state machine: one action per public operation *)

Doc == [nodes |-> nodes, uuid |-> nextUuid, undo |-> undoStack, redo |-> redoStack,
        lastChange |-> lastChange, notifyChanges |-> Function("notifyChanges")]

\* new ServerXmlDocument(doc, notifyChanges) on a new Y.Doc
Init ==
    /\ nodes = InitNodes
    /\ nextUuid = 0
    /\ undoStack = <<>>
    /\ redoStack = <<>>
    /\ lastChange = 0
    /\ calls = 0
    /\ sink = <<>>
    /\ last = [op |-> "new", arg |-> <<>>, elapsed |-> FALSE, threw |-> FALSE,
               failedAt |-> 0, events |-> <<>>]
    /\ documents = <<>>
    /\ protocols = <<>>
    /\ sent = <<>>
    /\ lastCall = [op |-> "none", id |-> "", threw |-> FALSE, n |-> 0]

\* whether the capture timeout has run out only matters after a captured change
Elapsed == IF lastChange > 0 THEN BOOLEAN ELSE {TRUE}

\* the state after a call that ended in r
Return(op, arg, elapsed, r) ==
    /\ Len(r.nodes) <= MaxNodes
    /\ r.uuid <= Len(Uuids)
    /\ nodes' = r.nodes
    /\ nextUuid' = r.uuid
    /\ undoStack' = r.undo
    /\ redoStack' = r.redo
    /\ lastChange' = r.lastChange
    /\ calls' = calls + 1
    /\ sink' = r.sink
    /\ last' = [op |-> op, arg |-> arg, elapsed |-> elapsed, threw |-> r.threw,
                failedAt |-> r.failedAt, events |-> r.events]
    /\ UNCHANGED registryVars

ApplyChanges ==
    /\ calls < MaxCalls
    /\ \E changes \in Batches, elapsed \in Elapsed :
          Return("applyChanges", changes, elapsed, applyChanges(Doc, changes, elapsed))

ApplyBackendChanges ==
    /\ calls < MaxCalls
    /\ \E update \in Updates(nodes), elapsed \in Elapsed :
          Return("applyBackendChanges", update, elapsed, applyBackendChanges(Doc, update, elapsed))

Next == ApplyChanges \/ ApplyBackendChanges

Spec == Init /\ [][Next]_vars

-----------------------------------------------------------------------------
(* The entry point (src/unnamed/part_000): the maps `documents` and       *)
(* `protocols` and the functions that register, address and unregister    *)
(* documents by documentID.  A message is [fn, documentID]: the send       *)
(* function that was called and the documentID in the JSON it was given.   *)

DocumentIds == {"d1", "d2"}

\* the pairs sendUpdateToBackend, sendUpdateToClient a caller registers
SendFns == {[backend |-> "toBackend1", client |-> "toClient1"],
            [backend |-> "toBackend2", client |-> "toClient2"]}

\* new ClientProtocol(...) and new ServerXmlDocument(clientProtocol.doc, undo,
\* callback): the constructor takes (doc, notifyChanges), so the flag `undo`
\* is its notifyChanges and the callback that sends to the client, a third
\* argument, is not taken
NewDocument(undo) ==
    [nodes |-> InitNodes, uuid |-> 0, undo |-> <<>>, redo |-> <<>>, lastChange |-> 0,
     notifyChanges |-> Boolean(undo)]

\* the document a call leaves behind
AfterCall(r) ==
    [nodes |-> r.nodes, uuid |-> r.uuid, undo |-> r.undo, redo |-> r.redo,
     lastChange |-> r.lastChange, notifyChanges |-> r.notifyChanges]

\* messages that all carry the documentID of the first document
UpdateMessagesOfFirst(fn, id, r) == [i \in 1..r.txn |-> [fn |-> fn, documentID |-> "d1"]]

\* this.doc.on("update", onClientUpdate): one message to the backend for every
\* transaction of the call that changed the document
UpdateMessages(fn, id, r) == [i \in 1..r.txn |-> [fn |-> fn, documentID |-> id]]

\* the base64Data of registerDocument: null, or an update for a new document
InitialStates == {None} \cup {Some(u) : u \in {x \in Updates(InitNodes) : Len(x) <= 1}}

\* the changes of an UpdatePayload
Payloads == {<<>>, <<InsA>>, <<SetRoot>>, <<DelRoot>>, <<InsA, SetA>>, <<Undo>>}

\* the state after entry-point function op was called for id
Returns(op, id, threw, docs, prots, msgs) ==
    /\ documents' = docs
    /\ protocols' = prots
    /\ sent' = msgs
    /\ lastCall' = [op |-> op, id |-> id, threw |-> threw, n |-> lastCall.n + 1]
    /\ UNCHANGED docVars

\* the function throws before it has done anything
Throws(op, id) == Returns(op, id, TRUE, documents, protocols, <<>>)

\* the document of id is what call r leaves behind
Stored(op, id, r) ==
    /\ Len(r.nodes) <= MaxNodes
    /\ Returns(op, id, r.threw, [documents EXCEPT ![id] = AfterCall(r)], protocols,
               UpdateMessages(protocols[id].onClientUpdate, id, r))

\* registerDocument once the initial state, if any, has been applied with r
Registered(id, fns, r) ==
    IF r.threw
    THEN Returns("registerDocument", id, TRUE, documents, protocols,
                 UpdateMessages(fns.backend, id, r))
    ELSE Returns("registerDocument", id, FALSE,
                 (id :> AfterCall(r)) @@ documents,
                 (id :> [onClientUpdate |-> fns.backend]) @@ protocols,
                 UpdateMessages(fns.backend, id, r))

\* a registerDocument that puts a new document in the place of a registered one
RegisterDocumentAnew ==
    /\ lastCall.n < MaxEntryCalls
    /\ \E id \in DocumentIds, undo \in BOOLEAN, fns \in SendFns :
          Registered(id, fns, Call(NewDocument(undo), TRUE))

RegisterDocument ==
    /\ lastCall.n < MaxEntryCalls
    /\ \E id \in DocumentIds, base64Data \in InitialStates, undo \in BOOLEAN, fns \in SendFns :
          IF id \in DOMAIN documents THEN Throws("registerDocument", id)
          ELSE Registered(id, fns,
                          IF base64Data = None THEN Call(NewDocument(undo), TRUE)
                          ELSE applyBackendChanges(NewDocument(undo), The(base64Data), TRUE))

\* an unregisterDocument that returns when there is nothing to unregister
UnregisterDocumentIfAny ==
    /\ lastCall.n < MaxEntryCalls
    /\ \E id \in DocumentIds :
          Returns("unregisterDocument", id, FALSE,
                  [x \in DOMAIN documents \ {id} |-> documents[x]],
                  [x \in DOMAIN protocols \ {id} |-> protocols[x]], <<>>)

UnregisterDocument ==
    /\ lastCall.n < MaxEntryCalls
    /\ \E id \in DocumentIds :
          IF id \notin DOMAIN documents THEN Throws("unregisterDocument", id)
          ELSE Returns("unregisterDocument", id, FALSE,
                       [x \in DOMAIN documents \ {id} |-> documents[x]],
                       [x \in DOMAIN protocols \ {id} |-> protocols[x]], <<>>)

\* applyChanges(update: UpdatePayload)
EntryApplyChanges ==
    /\ lastCall.n < MaxEntryCalls
    /\ \E id \in DocumentIds, changes \in Payloads :
          IF id \notin DOMAIN documents THEN Throws("applyChanges", id)
          ELSE Stored("applyChanges", id, applyChanges(documents[id], changes, TRUE))

\* applyBackendChanges(documentID, base64Changes)
EntryApplyBackendChanges ==
    /\ lastCall.n < MaxEntryCalls
    /\ \E id \in DocumentIds :
          IF id \notin DOMAIN documents THEN Throws("applyBackendChanges", id)
          ELSE \E update \in Updates(documents[id].nodes) :
                  Stored("applyBackendChanges", id, applyBackendChanges(documents[id], update, TRUE))

\* getState(documentID, vector) and getStateVector(documentID) read the document
GetState ==
    /\ lastCall.n < MaxEntryCalls
    /\ \E id \in DocumentIds, op \in {"getState", "getStateVector"} :
          IF id \notin DOMAIN documents THEN Throws(op, id)
          ELSE Returns(op, id, FALSE, documents, protocols, <<>>)

EntryNext ==
    \/ RegisterDocument
    \/ UnregisterDocument
    \/ EntryApplyChanges
    \/ EntryApplyBackendChanges
    \/ GetState

EntrySpec == Init /\ [][EntryNext]_vars

-----------------------------------------------------------------------------
(* What the claims are stated with *)

IsPrefix(s, t) == Len(s) <= Len(t) /\ SubSeq(t, 1, Len(s)) = s

\* the tree as a reader sees it: the nodes that are in it, with the children
\* and the characters that are there
Visible(ns) ==
    [h \in InTree(ns) |-> [kind |-> ns[h].kind, nodeName |-> ns[h].nodeName,
                           attrs |-> ns[h].attrs, kids |-> LiveKids(ns, h),
                           text |-> LiveChars(ns[h].text)]]

\* the step is a call of applyChanges / of any operation
IsApplyChanges == calls' = calls + 1 /\ last'.op = "applyChanges"
IsCall == calls' = calls + 1

-----------------------------------------------------------------------------
\* C1: when command k is the first of a batch to fail, the call throws at k
\* with commands 1..k-1 applied and observed (their effect is not rolled
\* back), and the commands after k are neither applied nor observed: the
\* tree and the notifications are those of the batch cut off after k.
C1_PartialBatch ==
    [][IsApplyChanges /\ last'.threw =>
         LET changes == last'.arg
             k == last'.failedAt
             before == applyChanges(Doc, SubSeq(changes, 1, k - 1), last'.elapsed)
             at == applyChange(before, changes[k])
         IN /\ k \in DOMAIN changes
            /\ ~before.threw
            /\ at.threw
            /\ nodes' = at.nodes
            /\ sink' = at.sink
            /\ IsPrefix(before.sink, sink')
            /\ \A h \in InTree(before.nodes) \ InTree(nodes) :
                  h \in DOMAIN nodes' /\ nodes'[h].parent = before.nodes[h].parent]_vars

\* a batch failed at its second command after its first had inserted a node,
\* which is in the tree, and a third command was left
C1_Witness ==
    /\ last.op = "applyChanges" /\ last.threw /\ last.failedAt = 2
    /\ Len(last.arg) = 3
    /\ Len(sink) = 1
    /\ Len(LiveKids(nodes, RootH)) = 1

-----------------------------------------------------------------------------
\* C2: a command that fails leaves the tree as it was just before the command
\* started, and no notification has been sent for it.
C2_CommandAtomic ==
    [][IsApplyChanges /\ last'.threw =>
         LET before == applyChanges(Doc, SubSeq(last'.arg, 1, last'.failedAt - 1), last'.elapsed)
         IN Visible(nodes') = Visible(before.nodes) /\ sink' = before.sink]_vars

-----------------------------------------------------------------------------
RECURSIVE OneByOne(_, _, _, _)
\* applyChanges([c]) for each command c of changes from the i-th on, one call
\* after the other; elapsed[i] says whether the capture timeout ran out before
\* call i.  The result is the last call's, with the notifications of all.
OneByOne(st, changes, elapsed, i) ==
    IF i > Len(changes) \/ st.threw THEN st
    ELSE LET r == applyChanges([nodes |-> st.nodes, uuid |-> st.uuid, undo |-> st.undo,
                                redo |-> st.redo, lastChange |-> st.lastChange,
                                notifyChanges |-> st.notifyChanges],
                               <<changes[i]>>, elapsed[i])
         IN OneByOne([r EXCEPT !.sink = st.sink \o @], changes, elapsed, i + 1)

\* the batch as single calls gives the tree and the notifications of the step
SameAsOneByOne(elapsed) ==
    LET r == OneByOne(Call(Doc, TRUE), last'.arg, elapsed, 1)
    IN ~r.threw /\ Visible(r.nodes) = Visible(nodes') /\ r.sink = sink'

\* the ways time can pass before the calls, the first at the time of the batch
Timings(changes) ==
    {e \in [DOMAIN changes -> BOOLEAN] : changes # <<>> => e[1] = last'.elapsed}

\* C3: a batch of commands in which no command fails gives the tree and the notifications
\* of its commands applied in single calls one after the other, when the calls
\* follow each other within the undo manager's capture timeout or the batch
\* holds no undo command.
C3_BatchAsSingleCalls ==
    [][IsApplyChanges /\ ~last'.threw /\ Len(last'.arg) > 1 =>
         \A e \in Timings(last'.arg) :
            (\A i \in DOMAIN e : i > 1 => ~e[i]) \/ (\A i \in DOMAIN e : ~Has(last'.arg[i], "undo"))
            => SameAsOneByOne(e)]_vars

\* C3 as stated: whatever time passes between the single calls
C3_AnyTiming ==
    [][IsApplyChanges /\ ~last'.threw /\ Len(last'.arg) > 1 =>
         \A e \in Timings(last'.arg) : SameAsOneByOne(e)]_vars

\* a batch of three commands went through, the second of which acted on what
\* the first had made
C3_Witness ==
    /\ last.op = "applyChanges" /\ ~last.threw
    /\ Len(last.arg) = 3 /\ Len(sink) = 3
    /\ Has(last.arg[2], "nodeID")

-----------------------------------------------------------------------------
\* the identifiers commands are addressed to
Ids == {"a", "b", "t", "u1", "u2"}

\* the elements that were removed from the tree and not brought back by an
\* undo or redo, by the identifier they had
Removed(ns, i) ==
    {h \in DOMAIN ns : /\ ns[h].kind = "element" /\ ns[h].deleted /\ ns[h].redone = 0
                       /\ Get(ns[h].attrs, "$id") = Some(i)}

\* the step is applyChanges([c]) for one command c addressed to identifier i
IsCommandOn(i) ==
    /\ IsApplyChanges
    /\ Len(last'.arg) = 1
    /\ Has(last'.arg[1], "nodeID") /\ last'.arg[1].nodeID = i

\* C4: a command addressed to the identifier of an element that has been
\* removed from the tree fails with not-found: it throws and does nothing.
C4_RemovedIdNotFound ==
    [][\A i \in Ids :
          IsCommandOn(i) /\ Removed(nodes, i) # {}
          => last'.threw /\ nodes' = nodes /\ sink' = <<>>]_vars

-----------------------------------------------------------------------------
\* the commands of the batch insert or delete nodes and do nothing else
IsStructural(changes) ==
    \A k \in DOMAIN changes :
        DOMAIN changes[k] \subseteq {"nodeID", "insertChildren", "delete", "deleteChildren"}

\* the nodes the step has made
Made == {h \in DOMAIN nodes' : h > Len(nodes)}

\* after the step identifier i resolves to the element it resolved to before
StillResolves(i) == findNode(nodes', i, RootH) = findNode(nodes, i, RootH)

-----------------------------------------------------------------------------
\* the live children of element h as serialize gives them
KidsOf(ns, h) == LET ks == LiveKids(ns, h) IN [i \in DOMAIN ks |-> serialize(ns, ks[i])]

RECURSIVE ApplyDelta(_, _, _)
\* the child list a reader gets who applies the entries of an elements delta
\* to list, from position pos on: retain moves on, insert puts the payload
\* in, delete takes children out
ApplyDelta(list, entries, pos) ==
    IF entries = <<>> THEN list
    ELSE LET e == Head(entries)
             at == pos + (IF e.retain = None THEN 0 ELSE The(e.retain))
         IN IF "insert" \in DOMAIN e
            THEN ApplyDelta(SubSeq(list, 1, at) \o e.insert \o SubSeq(list, at + 1, Len(list)),
                            Tail(entries), at + Len(e.insert))
            ELSE IF "delete" \in DOMAIN e
            THEN ApplyDelta(SubSeq(list, 1, at) \o SubSeq(list, at + e.delete + 1, Len(list)),
                            Tail(entries), at)
            ELSE ApplyDelta(list, Tail(entries), at)

\* the insert payloads of an elements delta, one after the other
Payload(entries) ==
    Flatten([i \in DOMAIN entries |->
                IF "insert" \in DOMAIN entries[i] THEN entries[i].insert ELSE <<>>])

\* the step is a successful applyChanges([c]) where c only inserts children
IsInsertChildren ==
    /\ IsApplyChanges /\ ~last'.threw
    /\ Len(last'.arg) = 1
    /\ "insertChildren" \in DOMAIN last'.arg[1]
    /\ DOMAIN last'.arg[1] \subseteq {"nodeID", "insertChildren"}

\* the element the command of the step is addressed to
Addressed ==
    IF Has(last'.arg[1], "nodeID") THEN findNode(nodes, last'.arg[1].nodeID, RootH) ELSE RootH

\* the one notification of the step is for element E and tells a reader how
\* E's child list became what it is
InsertObserved(E) ==
    LET made == SelectSeq(LiveKids(nodes', E), LAMBDA k : k > Len(nodes))
    IN /\ Len(sink') = 1
       /\ sink'[1].root = (E = RootH)
       /\ sink'[1].target = getAttribute(nodes, E, "$id")
       /\ ApplyDelta(KidsOf(nodes, E), sink'[1].elements, 0) = KidsOf(nodes', E)
       /\ Payload(sink'[1].elements) = [i \in DOMAIN made |-> serialize(nodes', made[i])]
       /\ Len(made) = Len(last'.arg[1].insertChildren.children)

\* C6: a successful insertChildren command on element E that inserts at least
\* one node makes the observer deliver exactly one notification, for E (root
\* is true when E is the document root), whose elements delta applied to E's
\* child list before the command gives E's child list after it and whose
\* insert payload is serialize() of the inserted nodes in order.
C6_InsertObserved ==
    [][IsInsertChildren /\ last'.arg[1].insertChildren.children # <<>>
       => InsertObserved(Addressed)]_vars

\* C6 as stated: for every successful insertChildren command
C6_EveryInsertObserved == [][IsInsertChildren => InsertObserved(Addressed)]_vars

\* two nodes were inserted behind a child: the delta retains, then inserts
C6_Witness ==
    /\ last.op = "applyChanges" /\ ~last.threw /\ Len(last.arg) = 1
    /\ DOMAIN last.arg[1] = {"insertChildren"}
    /\ Len(sink) = 1 /\ Len(sink[1].elements) = 2
    /\ sink[1].elements[1].retain = Some(1)
    /\ Len(sink[1].elements[2].insert) = 2

-----------------------------------------------------------------------------
\* the observer cannot translate event e: its target is neither an element nor
\* a text run, or a node it reports as inserted cannot be serialized
Untranslatable(e) ==
    \/ e.kind \notin {"element", "text"}
    \/ /\ e.kind = "element"
       /\ \E i \in DOMAIN e.delta :
             /\ "insert" \in DOMAIN e.delta[i]
             /\ \E j \in DOMAIN e.delta[i].insert :
                   serialize(nodes, e.delta[i].insert[j]) = SerializeError

\* the number of events of the call before the first that cannot be translated
Delivered ==
    LET bad == {i \in DOMAIN last.events : Untranslatable(last.events[i])}
    IN IF bad = {} THEN Len(last.events)
       ELSE (CHOOSE i \in bad : \A j \in bad : i <= j) - 1

\* notification n has the entries of event e, one for one
NoteOf(e, n) ==
    IF e.kind = "element"
    THEN /\ Len(n.elements) = Len(e.delta) /\ n.text = <<>>
         /\ Len(n.attributes.set) + Len(n.attributes.delete) = Len(e.keys)
         /\ n.root = (e.target = RootH)
    ELSE /\ Len(n.text) = Len(e.delta) /\ n.elements = <<>>
         /\ n.attributes = NoAttributeChanges
         /\ ~n.root

\* C7: the sink is called once for every event the deep-change feed hands
\* over, in the order of the events, none merged, dropped or reordered; when
\* an event cannot be translated, neither it nor a later event is notified
\* and the call throws.
C7_OncePerEvent ==
    /\ Len(sink) = Delivered
    /\ \A i \in DOMAIN sink : NoteOf(last.events[i], sink[i])
    /\ Delivered < Len(last.events) => last.threw

\* a merge whose first event was notified and whose second, on a hook, was not
C7_Witness ==
    /\ last.op = "applyBackendChanges" /\ last.threw
    /\ Len(last.events) = 2 /\ Len(sink) = 1
    /\ last.events[2].kind = "hook"

-----------------------------------------------------------------------------
\* the step is a call that returned and has changed the tree
TreeChanged == IsCall /\ ~last'.threw /\ Visible(nodes') # Visible(nodes)

\* the commands that make one change to the tree, in one transaction
IsOneChange(r, c) == ~r.threw /\ r.txn = 1 /\ ~Has(c, "undo") /\ ~Has(c, "redo")

\* the step is a merge of an update that has changed the tree
IsMerge == TreeChanged /\ last'.op = "applyBackendChanges"

\* the local command c, had it been applied instead of the step, would have
\* made the same tree
SameTree(r) == ~r.threw /\ Visible(r.nodes) = Visible(nodes')

\* C8: a call that returns having changed the tree, by a command, a merge, an
\* undo or a redo, has sent at least one notification; and a merge of an
\* update that carries one change sends the notifications of the local
\* command that makes the same tree with one change.
C8_ChangesObserved ==
    [][/\ TreeChanged => sink' # <<>>
       /\ IsMerge /\ Len(last'.arg) = 1 =>
             \A c \in Commands :
                LET r == applyChanges(Doc, <<c>>, last'.elapsed)
                IN SameTree(r) /\ IsOneChange(r, c) => r.sink = sink']_vars

\* C8 as stated: a merge sends the notifications of any local command that
\* makes the same tree
C8_MergeAsCommand ==
    [][/\ TreeChanged => sink' # <<>>
       /\ IsMerge =>
             \A c \in Commands :
                LET r == applyChanges(Doc, <<c>>, last'.elapsed)
                IN SameTree(r) => r.sink = sink']_vars

\* a merge has inserted an element, as the command InsA would have
C8_Witness ==
    /\ last.op = "applyBackendChanges" /\ ~last.threw
    /\ Len(last.arg) = 1 /\ last.arg[1].op = "insert"
    /\ Len(sink) = 1 /\ Payload(sink[1].elements) # <<>>

-----------------------------------------------------------------------------
\* C9: no notification has both elements and text: a notification for an
\* event on an element has no text, and has elements exactly when the event
\* changes the child list (none when it only changes attributes); a
\* notification for an event on a text run has text and no elements.
C9_ElementsOrText ==
    \A i \in DOMAIN sink :
        /\ i \in DOMAIN last.events
        /\ ~(sink[i].elements # <<>> /\ sink[i].text # <<>>)
        /\ last.events[i].kind = "element" =>
              sink[i].text = <<>> /\ (sink[i].elements # <<>> <=> last.events[i].delta # <<>>)
        /\ last.events[i].kind = "text" =>
              sink[i].elements = <<>> /\ sink[i].text # <<>>

\* C9 as stated: in every notification exactly one of elements and text is
\* non-empty
C9_ExactlyOne ==
    \A i \in DOMAIN sink : (sink[i].elements # <<>>) # (sink[i].text # <<>>)

\* a notification for an event that only changes attributes
C9_Witness ==
    \E i \in DOMAIN sink :
        /\ last.events[i].kind = "element" /\ last.events[i].delta = <<>>
        /\ sink[i].attributes.set # <<>>
        /\ sink[i].elements = <<>> /\ sink[i].text = <<>>

-----------------------------------------------------------------------------
\* the events of the last transaction of the call: the tree they were observed
\* on is the tree after the call
InLastTransaction(i) == last.events[i].txn = last.events[Len(last.events)].txn

\* the element a notification for event e is addressed by
TargetElement(e) == IF e.kind = "element" THEN e.target ELSE nodes[e.target].parent

\* C10: a notification for an event on an element has root true exactly when
\* the element is the document root, and its target is the element's $id
\* (none when it has none); a notification for an event on a text run has
\* root false, no elements, and the $id of the text run's parent as target.
C10_Addressing ==
    \A i \in DOMAIN sink :
        /\ i \in DOMAIN last.events
        /\ sink[i].root = (last.events[i].kind = "element" /\ last.events[i].target = RootH)
        /\ last.events[i].kind = "text" => sink[i].elements = <<>>
        /\ InLastTransaction(i) =>
              sink[i].target = getAttribute(nodes, TargetElement(last.events[i]), "$id")

\* a notification for the root, which carries an identifier, or for a text
\* run in an element that carries one
C10_Witness ==
    \E i \in DOMAIN sink :
        /\ InLastTransaction(i)
        /\ last.events[i].kind = "text"
        /\ sink[i].target = Some("t") /\ ~sink[i].root
        /\ getAttribute(nodes, RootH, "$id") = Some("r")

-----------------------------------------------------------------------------
\* the number of children of E in front of the place the insertChildren
\* argument ic names: behind the first child element with identifier
\* `after`, else at `index`, else at the end
InsertPlace(E, ic) ==
    LET old == LiveKids(nodes, E)
        hits == {i \in DOMAIN old : /\ nodes[old[i]].kind = "element"
                                    /\ getAttribute(nodes, old[i], "$id") = Some(ic.after)}
    IN IF Has(ic, "after") /\ ic.after # "" THEN CHOOSE i \in hits : \A j \in hits : i <= j
       ELSE IF Has(ic, "index") THEN ic.index
       ELSE Len(old)

\* node h of the tree after the step is built from spec c
BuiltFrom(h, c) ==
    IF Has(c, "element")
    THEN nodes'[h].kind = "element" /\ nodes'[h].nodeName = ElementName(c.element)
    ELSE nodes'[h].kind = "text"

\* the children of E after the step are those before it with the new nodes,
\* in the order of their specs, put in after the first p of them
PlacedAt(E, ic, p) ==
    LET old == LiveKids(nodes, E)
        new == LiveKids(nodes', E)
        n == Len(ic.children)
    IN /\ Len(new) = Len(old) + n
       /\ SubSeq(new, 1, p) = SubSeq(old, 1, p)
       /\ SubSeq(new, p + n + 1, Len(new)) = SubSeq(old, p + 1, Len(old))
       /\ \A i \in 1..n : new[p + i] > Len(nodes) /\ BuiltFrom(new[p + i], ic.children[i])

\* C11: a successful insertChildren puts the new nodes, in the order of their
\* specs and next to each other, behind the child named by `after` when that
\* is given (also when `index` is given too), else at `index` when that is
\* given, else at the end; the children that were there keep their order and
\* none is removed.
C11_InsertPlacement ==
    [][IsInsertChildren =>
         PlacedAt(Addressed, last'.arg[1].insertChildren,
                  InsertPlace(Addressed, last'.arg[1].insertChildren))]_vars

\* `after` and `index` 0 were both given: the new node is behind a, in front
\* of the child that came behind a before
C11_Witness ==
    /\ last.op = "applyChanges" /\ ~last.threw /\ Len(last.arg) = 1
    /\ Has(last.arg[1], "insertChildren")
    /\ DOMAIN last.arg[1].insertChildren = {"after", "index", "children"}
    /\ Len(LiveKids(nodes, RootH)) = 3
    /\ getAttribute(nodes, LiveKids(nodes, RootH)[1], "$id") = Some("a")
    /\ LiveKids(nodes, RootH)[2] > LiveKids(nodes, RootH)[3]

-----------------------------------------------------------------------------
\* the step is a successful applyChanges([c]) where c only deletes children
IsDeleteChildren ==
    /\ IsApplyChanges /\ ~last'.threw
    /\ Len(last'.arg) = 1
    /\ "deleteChildren" \in DOMAIN last'.arg[1]
    /\ DOMAIN last'.arg[1] \subseteq {"nodeID", "deleteChildren"}

\* the children of E after the step are those before it without the n that
\* came behind the first p
RemovedAt(E, p, n) ==
    LET old == LiveKids(nodes, E)
    IN /\ p + n <= Len(old)
       /\ LiveKids(nodes', E) = SubSeq(old, 1, p) \o SubSeq(old, p + n + 1, Len(old))

\* C12: a successful deleteChildren finds its start as insertChildren does:
\* with `after` it removes the `length` children that follow the child named
\* by `after`, which itself stays; with `index` it removes the `length`
\* children at index .. index + length - 1.
C12_DeleteRange ==
    [][IsDeleteChildren =>
         RemovedAt(Addressed, InsertPlace(Addressed, last'.arg[1].deleteChildren),
                   last'.arg[1].deleteChildren.length)]_vars

-----------------------------------------------------------------------------
\* the step is applyChanges([c]) for one command c with `delete`
IsDelete ==
    /\ IsApplyChanges
    /\ Len(last'.arg) = 1
    /\ Has(last'.arg[1], "delete")

\* the step has taken child h out of its parent and has changed nothing else
\* of what is left in the tree
OnlyRemoved(h) ==
    LET p == nodes[h].parent
    IN /\ ~last'.threw
       /\ h \notin InTree(nodes')
       /\ LiveKids(nodes', p) = SelectSeq(LiveKids(nodes, p), LAMBDA k : k # h)
       /\ \A q \in InTree(nodes') \ {p} : Visible(nodes')[q] = Visible(nodes)[q]
       /\ Visible(nodes')[p].attrs = Visible(nodes)[p].attrs

\* C13: a command with `delete` that is addressed to the document root (no
\* nodeID, an empty one, or the root's identifier) fails, the tree is as it
\* was and no notification is sent; a `delete` on an element below the root
\* takes exactly that child out of its parent and leaves its siblings in
\* their order.
C13_DeleteRoot ==
    [][IsDelete /\ Addressed # 0 =>
         IF Addressed = RootH
         THEN last'.threw /\ nodes' = nodes /\ sink' = <<>>
         ELSE DOMAIN last'.arg[1] = {"nodeID", "delete"} => OnlyRemoved(Addressed)]_vars

\* a delete addressed to the root by the identifier the root carries has failed
C13_Witness ==
    /\ last.op = "applyChanges" /\ last.threw
    /\ last.arg = <<DelRootById>>
    /\ findNode(nodes, "r", RootH) = RootH
    /\ LiveKids(nodes, RootH) # <<>>

-----------------------------------------------------------------------------
\* the step is applyChanges([c]) for one command c that carries a text
\* sub-action and is addressed to an element that is there
IsTextCommand ==
    /\ IsApplyChanges
    /\ Len(last'.arg) = 1
    /\ DOMAIN last'.arg[1] \cap {"insertText", "formatText", "deleteText"} # {}
    /\ Addressed # 0

\* C14: a command that carries insertText, formatText or deleteText and is
\* addressed to an element whose tag name is not "text" fails, and the tree
\* after the failure is the tree before the command.
C14_TextGuard ==
    [][IsTextCommand /\ nodes[Addressed].nodeName # "text"
       => last'.threw /\ Visible(nodes') = Visible(nodes)]_vars

-----------------------------------------------------------------------------
RECURSIVE Subtree(_, _)
\* the subtree of node h as createNodes builds nodes: tag name, attributes and
\* children of an element, the characters of a text run
Subtree(ns, h) ==
    IF ns[h].kind = "element"
    THEN LET ks == LiveKids(ns, h)
         IN [kind |-> "element", nodeName |-> ns[h].nodeName, attrs |-> ns[h].attrs,
             kids |-> [i \in DOMAIN ks |-> Subtree(ns, ks[i])]]
    ELSE [kind |-> ns[h].kind, text |-> LiveChars(ns[h].text)]

\* the elements of the tree that serialize accepts
Serializable == {h \in InTree(nodes) : nodes[h].kind = "element"
                                       /\ serialize(nodes, h) # SerializeError}

\* createNodes([serialize(T)]) for the subtree T of element h
Rebuilt(h) == createNodes(<<serialize(nodes, h)>>, nextUuid)

\* C15: for every element subtree T of the tree whose top element carries an
\* identifier, createNodes([serialize(T)]) gives one subtree that equals T in
\* tag names, attributes (the $id included, which is kept and not generated
\* anew) and children.
C15_RoundTrip ==
    \A h \in Serializable :
        "$id" \in DOMAIN nodes[h].attrs
        => Rebuilt(h).ok /\ Rebuilt(h).nodes = <<Subtree(nodes, h)>>

-----------------------------------------------------------------------------
\* the elements in the tree below the root
Elements(ns) == {h \in InTree(ns) \ {RootH} : ns[h].kind = "element"}

\* C16: every element in the tree below the root carries a non-empty $id.
C16_NonEmptyId ==
    \A h \in Elements(nodes) : getAttribute(nodes, h, "$id") \notin {None, Some("")}

-----------------------------------------------------------------------------
\* C17: the $id of an element is never reassigned: an applyChanges call
\* leaves every element that stays in the tree with the $id it had.
C17_IdNeverReassigned ==
    [][IsApplyChanges =>
         \A h \in Elements(nodes) \cap Elements(nodes') :
            getAttribute(nodes', h, "$id") = getAttribute(nodes, h, "$id")]_vars

-----------------------------------------------------------------------------
\* the step is a call of an entry-point function
IsEntryCall == lastCall'.n = lastCall.n + 1

\* the step has left the maps and every document as they were, and no send
\* function was called
RegistryUntouched == documents' = documents /\ protocols' = protocols /\ sent' = <<>>

\* C18: applyChanges, applyBackendChanges, getState and getStateVector for a
\* documentID that is not registered throw without touching any document,
\* getState and getStateVector for a registered one succeed; a documentID
\* becomes registered only by a registerDocument that succeeds and stops
\* being registered only by an unregisterDocument that succeeds;
\* unregisterDocument of an id that is not registered throws and leaves the
\* registry as it was.
C18_Lifecycle ==
    [][IsEntryCall =>
         /\ lastCall'.op # "registerDocument" /\ lastCall'.id \notin DOMAIN documents
            => lastCall'.threw /\ RegistryUntouched
         /\ lastCall'.op \in {"getState", "getStateVector"} /\ lastCall'.id \in DOMAIN documents
            => ~lastCall'.threw /\ RegistryUntouched
         /\ \A id \in DOMAIN documents' \ DOMAIN documents :
               lastCall' = [op |-> "registerDocument", id |-> id, threw |-> FALSE, n |-> lastCall'.n]
         /\ \A id \in DOMAIN documents \ DOMAIN documents' :
               lastCall' = [op |-> "unregisterDocument", id |-> id, threw |-> FALSE, n |-> lastCall'.n]]_vars

\* applyChanges has thrown for a documentID that is not registered while
\* another document is
C18_Witness ==
    /\ lastCall.op = "applyChanges" /\ lastCall.threw
    /\ lastCall.id \notin DOMAIN documents
    /\ DOMAIN documents # {}
    /\ sent = <<>>

-----------------------------------------------------------------------------
\* C19: registerDocument for an id that is registered throws and leaves the
\* document, its tree and the maps as they were, with no send function
\* called; for an id that is not registered, also one that was registered
\* before, a registerDocument that succeeds starts from a new document that
\* has nothing of an earlier one.
C19_RegisterOnce ==
    [][IsEntryCall /\ lastCall'.op = "registerDocument" =>
         IF lastCall'.id \in DOMAIN documents
         THEN lastCall'.threw /\ RegistryUntouched
         ELSE ~lastCall'.threw =>
                 /\ documents'[lastCall'.id].nodes = InitNodes
                 /\ documents'[lastCall'.id].undo = <<>>
                 /\ documents'[lastCall'.id].redo = <<>>]_vars

\* registerDocument has thrown for an id whose document has content
C19_Witness ==
    /\ lastCall.op = "registerDocument" /\ lastCall.threw
    /\ lastCall.id \in DOMAIN documents
    /\ documents[lastCall.id].nodes # InitNodes

-----------------------------------------------------------------------------
\* C20: applyChanges and applyBackendChanges on a registered document leave
\* every other document and its protocol as they were and call no send
\* function but the document's own; every message carries the documentID of
\* the document the call was for.
C20_Independent ==
    [][IsEntryCall =>
         /\ \A i \in DOMAIN sent' : sent'[i].documentID = lastCall'.id
         /\ lastCall'.op \in {"applyChanges", "applyBackendChanges"}
            /\ lastCall'.id \in DOMAIN documents
            => /\ \A b \in DOMAIN documents \ {lastCall'.id} :
                     /\ b \in DOMAIN documents' /\ documents'[b] = documents[b]
                     /\ protocols'[b] = protocols[b]
               /\ \A i \in DOMAIN sent' :
                     sent'[i].fn = protocols[lastCall'.id].onClientUpdate]_vars

\* of two documents registered with different send functions, the second has
\* been changed and its update sent
C20_Witness ==
    /\ DOMAIN documents = {"d1", "d2"}
    /\ protocols["d1"] # protocols["d2"]
    /\ lastCall.op = "applyChanges" /\ lastCall.id = "d2"
    /\ sent # <<>>
    /\ documents["d2"].nodes # InitNodes /\ documents["d1"].nodes = InitNodes

-----------------------------------------------------------------------------
\* command c asks for an undo (a redo) and for nothing else
IsUndoOnly(c) == Has(c, "undo") /\ DOMAIN c \subseteq {"nodeID", "undo"}
IsRedoOnly(c) == Has(c, "redo") /\ DOMAIN c \subseteq {"nodeID", "redo"}

\* the nodeID of command c, when it has one, is that of an element of the tree
Resolves(c) ==
    ~Has(c, "nodeID") \/ c.nodeID = "" \/ findNode(nodes, c.nodeID, RootH) # 0

\* the call has not failed and has changed and sent nothing
NoOp ==
    /\ ~last'.threw /\ nodes' = nodes /\ sink' = <<>>
    /\ undoStack' = undoStack /\ redoStack' = redoStack

\* the undo of command c finds a stack item that changes the tree
Undoes(c) == applyChanges(Doc, <<c>>, last'.elapsed).events # <<>>

\* what C21 says of the step, a call of applyChanges
UndoRedoContract ==
    LET changes == last'.arg
    IN /\ undoStack = <<>> /\ (\A i \in DOMAIN changes : IsUndoOnly(changes[i])) => NoOp
       /\ redoStack = <<>> /\ (\A i \in DOMAIN changes : IsRedoOnly(changes[i])) => NoOp
       /\ calls = 1 /\ undoStack # <<>> /\ Len(changes) = 1 /\ IsUndoOnly(changes[1])
          => Subtree(nodes', RootH) = Subtree(InitNodes, RootH)
       /\ undoStack # <<>> /\ Len(changes) = 2 /\ ~last'.threw
          /\ IsUndoOnly(changes[1]) /\ IsRedoOnly(changes[2]) /\ Undoes(changes[1])
          => Subtree(nodes', RootH) = Subtree(nodes, RootH)

-----------------------------------------------------------------------------
\* the order C22 gives
FixedOrder ==
    <<"delete", "insertChildren", "deleteChildren", "removeAttributes", "setAttributes",
      "insertText", "formatText", "deleteText", "undo", "redo">>

\* the sub-actions command c carries
Carried(c) == SelectSeq(FixedOrder, LAMBDA f : Has(c, f))

\* the command that carries sub-action f of c and nothing else: addressed as c
\* is, but for undo and redo, which need no element
Single(c, f) ==
    [x \in (IF f \in {"undo", "redo"} THEN {f} ELSE {f} \cup ({"nodeID"} \cap DOMAIN c)) |-> c[x]]

\* c does not take its element out of the tree or change how it is addressed
KeepsTarget(c) ==
    /\ ~Has(c, "delete")
    /\ Has(c, "removeAttributes") => "$id" \notin Range(c.removeAttributes)
    /\ Has(c, "setAttributes") => \A i \in DOMAIN c.setAttributes : c.setAttributes[i][1] # "$id"

\* the call of the step gave what the sub-actions of c give as commands of
\* their own, one call after the other in the order of C22
AsSingleSubActions(c) ==
    LET fs == Carried(c)
        r == OneByOne(Call(Doc, TRUE), [i \in DOMAIN fs |-> Single(c, fs[i])],
                      [i \in DOMAIN fs |-> IF i = 1 THEN last'.elapsed ELSE FALSE], 1)
    IN /\ r.threw = last'.threw
       /\ Visible(r.nodes) = Visible(nodes')
       /\ r.sink = sink'

\* C22: the sub-actions of one command take effect in the order delete,
\* insertChildren, deleteChildren, removeAttributes, setAttributes,
\* insertText, formatText, deleteText, undo, redo: a command with several
\* sub-actions that keeps its element addressable gives the tree and the
\* notifications of its sub-actions applied as single commands in that order;
\* an attribute that is both removed and set is there with the set value, and
\* a deleteChildren range counts the children the command has inserted.
C22_FixedOrder ==
    [][IsApplyChanges /\ Len(last'.arg) = 1 /\ Len(Carried(last'.arg[1])) > 1
       /\ Resolves(last'.arg[1]) /\ KeepsTarget(last'.arg[1])
       => LET c == last'.arg[1]
          IN /\ AsSingleSubActions(c)
             /\ ~last'.threw /\ Has(c, "removeAttributes") /\ Has(c, "setAttributes")
                => \A i \in DOMAIN c.setAttributes :
                      getAttribute(nodes', Addressed, c.setAttributes[i][1]) = Some(c.setAttributes[i][2])
             /\ ~last'.threw /\ Has(c, "insertChildren") /\ Has(c, "deleteChildren")
                /\ ~Has(c.insertChildren, "after") /\ ~Has(c.insertChildren, "index")
                /\ ~Has(c.deleteChildren, "after")
                => LET old == LiveKids(nodes, Addressed)
                       new == LiveKids(nodes', Addressed)
                       lo == c.deleteChildren.index
                       n == c.deleteChildren.length
                       added == Len(c.insertChildren.children)
                   IN /\ Len(new) = Len(old) + added - n
                      /\ SubSeq(new, 1, Min(lo, Len(old))) = SubSeq(old, 1, Min(lo, Len(old)))]_vars

\* the root had attribute k; one command removed k and set it: k is there
\* with the value set, after a notification of the removal and one of the set
C22_Witness ==
    /\ calls = 2 /\ last.op = "applyChanges" /\ ~last.threw
    /\ last.arg = <<RemSetRoot>>
    /\ getAttribute(nodes, RootH, "k") = Some("w")
    /\ Len(sink) = 2
    /\ sink[1].attributes.delete = <<"k">>
    /\ sink[2].attributes.set = <<[name |-> "k", value |-> Some("w")]>>

-----------------------------------------------------------------------------
\* the step is applyChanges([c]) where c carries sub-action f and no other
\* and is addressed to an element of the tree
IsOnly(f) ==
    /\ IsApplyChanges
    /\ Len(last'.arg) = 1
    /\ Has(last'.arg[1], f) /\ DOMAIN last'.arg[1] \subseteq {"nodeID", f}
    /\ Addressed # 0 /\ IsElement(nodes, Addressed)

\* an immediate child of element E that is an element carries identifier i
ChildCarries(E, i) ==
    \E k \in Range(LiveKids(nodes, E)) :
        nodes[k].kind = "element" /\ getAttribute(nodes, k, "$id") = Some(i)

\* p names an `after` that no immediate child of the addressed element carries
AfterUnresolved(p) == Has(p, "after") /\ p.after # "" /\ ~ChildCarries(Addressed, p.after)

\* the call has failed, no node was made or removed, nothing was sent
FailedUntouched ==
    last'.threw /\ nodes' = nodes /\ nextUuid' = nextUuid /\ sink' = <<>>

\* C23: an `after` of insertChildren or deleteChildren is looked up among the
\* immediate element children of the addressed element only: when none of
\* them carries it (a deeper descendant, a node elsewhere in the tree or a
\* removed node may) the command fails and no node is made in or removed from
\* the tree; deleteChildren with neither `after` nor `index` fails as well and
\* the tree is unchanged.
C23_AfterAmongChildren ==
    [][/\ IsOnly("insertChildren") /\ AfterUnresolved(last'.arg[1].insertChildren)
          => FailedUntouched
       /\ IsOnly("deleteChildren") /\ AfterUnresolved(last'.arg[1].deleteChildren)
          => FailedUntouched
       /\ IsOnly("deleteChildren")
          /\ DOMAIN last'.arg[1].deleteChildren \cap {"after", "index"} = {}
          => FailedUntouched]_vars

\* an insertion at the root after b has failed while b is in the tree, a
\* child of a child of the root
C23_Witness ==
    /\ last.op = "applyChanges" /\ last.threw
    /\ last.arg = <<InsAfterB>>
    /\ findNode(nodes, "b", RootH) # 0
    /\ nodes[findNode(nodes, "b", RootH)].parent # RootH
    /\ sink = <<>>

-----------------------------------------------------------------------------
\* the call of the step, made again on the document of before the step
ThisCall ==
    IF last'.op = "applyChanges" THEN applyChanges(Doc, last'.arg, last'.elapsed)
    ELSE applyBackendChanges(Doc, last'.arg, last'.elapsed)

\* the names in a list of set entries
SetNames(set) == {set[x].name : x \in DOMAIN set}

\* notification note tells the attribute changes of event e, made on the
\* tree ns that the transaction of e has left
TellsKeys(note, e, ns) ==
    /\ \A j \in DOMAIN e.keys :
          IF e.keys[j].action \in {"add", "update"}
          THEN \E x \in DOMAIN note.attributes.set :
                  /\ note.attributes.set[x].name = e.keys[j].key
                  /\ note.attributes.set[x].value = Get(ns[e.target].attrs, e.keys[j].key)
                  /\ note.attributes.set[x].value # None
          ELSE e.keys[j].key \in Range(note.attributes.delete)
    /\ SetNames(note.attributes.set) \cap Range(note.attributes.delete) = {}

\* C24: in the notification of an event on an element, every attribute key
\* the event reports as added or updated is in attributes.set with the value
\* the element has when the sink is called, at the end of the transaction of
\* the event; every key reported as deleted is in attributes.delete; no key
\* is in both lists.
C24_AttributeChanges ==
    [][IsCall =>
         \A i \in DOMAIN sink' :
            last'.events[i].kind = "element"
            => TellsKeys(sink'[i], last'.events[i], ThisCall.trees[last'.events[i].txn])]_vars

\* one merge gave k a new value and removed l: the notification has k with
\* the new value in set and l in delete
C24_Witness ==
    /\ last.op = "applyBackendChanges" /\ Len(sink) = 1
    /\ sink[1].attributes.set = <<[name |-> "k", value |-> Some("w")]>>
    /\ sink[1].attributes.delete = <<"l">>
    /\ getAttribute(nodes, RootH, "k") = Some("w")
    /\ getAttribute(nodes, RootH, "l") = None

-----------------------------------------------------------------------------
\* every text run of tree ns is the only child of an element named "text"
TextRunsPlaced(ns) ==
    \A h \in InTree(ns) :
        ns[h].kind = "text"
        => /\ ns[h].parent # 0
           /\ ns[ns[h].parent].kind = "element"
           /\ ns[ns[h].parent].nodeName = "text"
           /\ LiveKids(ns, ns[h].parent) = <<h>>

\* C25: applyChanges keeps the placement of text runs: from a tree in which
\* every text run is the only child of an element with tag name "text" it
\* leads to such a tree.
C25_TextRunPlacement ==
    [][IsApplyChanges /\ TextRunsPlaced(nodes) => TextRunsPlaced(nodes')]_vars

-----------------------------------------------------------------------------
\* no two elements of tree ns carry the same $id
UniqueIds(ns) ==
    \A g, h \in {x \in InTree(ns) : ns[x].kind = "element" /\ "$id" \in DOMAIN ns[x].attrs} :
        ns[g].attrs["$id"] = ns[h].attrs["$id"] => g = h

\* C26: applyChanges keeps the identifiers unique: from a tree in which no two
\* elements carry the same $id it leads to such a tree, so an element made by
\* insertChildren never gets the $id of an element that is in the tree or
\* that the same command makes.
C26_UniqueIds ==
    [][IsApplyChanges /\ UniqueIds(nodes) => UniqueIds(nodes')]_vars

-----------------------------------------------------------------------------
\* what applyChanges resolves for command c on tree ns: a handle, 0 for null
Resolved(ns, c) ==
    IF Has(c, "nodeID") /\ c.nodeID # "" THEN findNode(ns, c.nodeID, RootH) ELSE RootH

\* C27: what applyChanges resolves for a command, on the tree the commands
\* before it have left, is an element whenever it is a node at all, never a
\* text run: the type checks of the sub-actions against a text node do not fail.
C27_TargetIsElement ==
    [][IsApplyChanges =>
         \A i \in DOMAIN last'.arg :
            LET before == applyChanges(Doc, SubSeq(last'.arg, 1, i - 1), last'.elapsed)
                h == Resolved(before.nodes, last'.arg[i])
            IN ~before.threw /\ h # 0 => before.nodes[h].kind = "element"]_vars

\* a command addressed to the "text" element t, which holds a text run, has
\* inserted text: it was resolved to the element
C27_Witness ==
    /\ last.op = "applyChanges" /\ ~last.threw
    /\ last.arg = <<TIns>>
    /\ Len(sink) = 1 /\ sink[1].text # <<>>
    /\ findNode(nodes, "t", RootH) # 0
    /\ nodes[firstChild(nodes, findNode(nodes, "t", RootH))].kind = "text"

-----------------------------------------------------------------------------
\* the two maps have the same keys
SameKeys(docs, prots) == DOMAIN docs = DOMAIN prots

\* the initial states that change the tree of a new document and hold nothing
\* the observer cannot serialize
NotifyingStates ==
    {u \in Updates(InitNodes) :
        /\ Len(u) = 1
        /\ u[1].op = "insert" => \A j \in DOMAIN u[1].nodes : u[1].nodes[j].kind = "element"}

\* the step is registerDocument(id, u, undo, fns.backend, fns.client) for an
\* id that is not registered
IsRegistrationWith(id, u, undo, fns) ==
    /\ id \notin DOMAIN documents
    /\ Registered(id, fns, applyBackendChanges(NewDocument(undo), u, TRUE))

\* C28: after every registerDocument and unregisterDocument call, failed or
\* not, `documents` and `protocols` have the same keys; a registerDocument
\* that throws while it applies the initial state puts the id in neither
\* map; the notifications the initial state causes are sent to the client
\* send function during the call, before the id is registered.
C28_SameKeys ==
    [][IsEntryCall /\ lastCall'.op \in {"registerDocument", "unregisterDocument"} =>
         /\ SameKeys(documents', protocols')
         /\ lastCall'.op = "registerDocument" /\ lastCall'.threw /\ lastCall'.id \notin DOMAIN documents
            => lastCall'.id \notin DOMAIN documents' /\ lastCall'.id \notin DOMAIN protocols'
         /\ \A u \in NotifyingStates, undo \in BOOLEAN, fns \in SendFns :
               IsRegistrationWith(lastCall'.id, u, undo, fns)
               => \E i \in DOMAIN sent' : sent'[i].fn = fns.client]_vars

\* the part of C28 that is about the maps
C28_MapsOnly ==
    [][IsEntryCall /\ lastCall'.op \in {"registerDocument", "unregisterDocument"} =>
         /\ SameKeys(documents', protocols')
         /\ lastCall'.op = "registerDocument" /\ lastCall'.threw /\ lastCall'.id \notin DOMAIN documents
            => lastCall'.id \notin DOMAIN documents' /\ lastCall'.id \notin DOMAIN protocols']_vars

====
